---- MODULE Spec2Model ----
(***************************************************************************)
(* State-machine model of the news reader's relevance engine:              *)
(*   core/database.py         the three tables                             *)
(*   core/profile_manager.py  topic weights, topic extraction, learning    *)
(*   core/article_manager.py  the advanced query, read state, analysis     *)
(*   core/feed_fetcher.py     ingestion                                    *)
(*   agents/mcp_tools.py      the tool layer on top of the managers        *)
(*                                                                         *)
(* Numbers: weights, relevance scores and deltas are REAL in the code.     *)
(* Here they are integers counting twentieths (0.05), so 1.0 is 20,        *)
(* 0.5 is 10, 0.7 is 14 and the delta 10.0 is 200.                         *)
(* Text: a string is a sequence of one-character strings.                  *)
(***************************************************************************)
EXTENDS Integers, Sequences, FiniteSets, TLC

VARIABLES articles, feedback, profile, ret, config_file, managers, calls, sequence

vars == <<articles, feedback, profile, ret, config_file, managers, calls, sequence>>

\* What lives outside the three tables: config.json, the configuration each
\* FeedbackManager instance loaded, the calls that are under way, and the
\* largest id of a deleted article (the AUTOINCREMENT of articles.id never
\* hands out an id again).
process == <<config_file, managers, calls, sequence>>

(***************************************************************************)
(* Generic helpers                                                         *)
(***************************************************************************)
Max(a, b) == IF a >= b THEN a ELSE b

Min(a, b) == IF a <= b THEN a ELSE b

None == <<"N", "o", "n", "e">>

\* Python's str.lower() on the letters the model uses.
LowerChar(c) ==
    CASE c = "A" -> "a" [] c = "D" -> "d" [] c = "G" -> "g" [] c = "I" -> "i"
      [] c = "M" -> "m" [] c = "N" -> "n" [] c = "R" -> "r" [] c = "S" -> "s"
      [] c = "T" -> "t" [] c = "U" -> "u" [] c = "V" -> "v"
      [] OTHER -> c

Lower(s) == [i \in 1..Len(s) |-> LowerChar(s[i])]

\* Python's `kw in text` on strings: kw occurs as a contiguous substring.
Contains(text, kw) ==
    \E i \in 0..(Len(text) - Len(kw)) :
        \A j \in 1..Len(kw) : text[i + j] = kw[j]

\* Python's str.split(): the maximal runs of non-blank characters, in order.
RECURSIVE SplitFrom(_, _, _)
SplitFrom(s, i, word) ==
    IF i > Len(s)
    THEN IF word = <<>> THEN <<>> ELSE <<word>>
    ELSE IF s[i] = " "
         THEN (IF word = <<>> THEN <<>> ELSE <<word>>) \o SplitFrom(s, i + 1, <<>>)
         ELSE SplitFrom(s, i + 1, Append(word, s[i]))

Split(s) == SplitFrom(s, 1, <<>>)

Range(f) == {f[i] : i \in DOMAIN f}

(***************************************************************************)
(* reader_profile table and ProfileManager                                 *)
(***************************************************************************)
\* 1.0 in twentieths: the upper clamp of update_topic.
One == 20

\* 0.5 in twentieths: the base weight of a topic adjust_topic_weight creates.
BaseWeight == 10

TopicRust == <<"R", "u", "s", "t">>

TopicMat == <<"M", "a", "t", " ", "o", "c", "h", " ", "A", "I">>

TopicNames == {TopicRust, TopicMat}

Sources == {"explicit", "learned", "agent_updated"}

\* A topic may be written at most this many times between creation and removal.
MaxSamples == 2

\* config.json read by _load_config: the topics and their priority lists.
ConfigTopics == <<TopicRust, TopicMat>>

ConfigHigh == {TopicRust}

ConfigMedium == {}

ConfigLow == {}

\* get_profile(): the dict topic -> row data built from the table's rows.
get_profile(prof) ==
    [t \in {r.topic : r \in prof} |-> CHOOSE r \in prof : r.topic = t]

\* An upsert that counts a sample only when the weight it writes is new.
UpsertCountingChanges(prof, topic, weight, source) ==
    IF \E r \in prof : r.topic = topic
    THEN {IF r.topic = topic
          THEN [r EXCEPT !.weight = weight,
                         !.sample_count = IF r.weight = weight THEN r.sample_count
                                          ELSE r.sample_count + 1]
          ELSE r : r \in prof}
    ELSE prof \cup {[topic |-> topic, weight |-> weight, source |-> source,
                     sample_count |-> 1]}

\* The rows the upsert of update_topic leaves: INSERT ... ON CONFLICT(topic)
\* DO UPDATE SET weight, sample_count + 1 (the source column is only written
\* by the INSERT branch).
Upsert(prof, topic, weight, source) ==
    IF \E r \in prof : r.topic = topic
    THEN {IF r.topic = topic
          THEN [r EXCEPT !.weight = weight, !.sample_count = r.sample_count + 1]
          ELSE r : r \in prof}
    ELSE prof \cup {[topic |-> topic, weight |-> weight, source |-> source,
                     sample_count |-> 1]}

\* update_topic without its clamp.
UpdateTopicRowsNoClamp(prof, topic, weight, source) ==
    Upsert(prof, topic, weight, source)

\* The table after update_topic(topic, weight, source).
UpdateTopicRows(prof, topic, weight, source) ==
    Upsert(prof, topic, Max(0, Min(One, weight)), source)

\* The value adjust_topic_weight(topic, delta) returns.
AdjustReturn(prof, topic, delta) ==
    IF topic \notin DOMAIN get_profile(prof)
    THEN BaseWeight + delta
    ELSE Max(0, Min(One, get_profile(prof)[topic].weight + delta))

\* An adjustment that replaces the row by a new row of provenance learned.
AdjustRowsRelearned(prof, topic, delta) ==
    UpdateTopicRows({r \in prof : r.topic # topic}, topic,
                    IF topic \notin DOMAIN get_profile(prof)
                    THEN BaseWeight + delta
                    ELSE get_profile(prof)[topic].weight + delta,
                    "learned")

\* The table after adjust_topic_weight(topic, delta).
AdjustRows(prof, topic, delta) ==
    IF topic \notin DOMAIN get_profile(prof)
    THEN UpdateTopicRows(prof, topic, BaseWeight + delta, "learned")
    ELSE UpdateTopicRows(prof, topic,
                         Max(0, Min(One, get_profile(prof)[topic].weight + delta)),
                         get_profile(prof)[topic].source)

(***************************************************************************)
(* Nullable columns: <<>> is NULL / None, <<x>> is the value x.            *)
(***************************************************************************)
Null == <<>>

Some(x) == <<x>>

\* Python's str(x) inside an f-string for a nullable text column.
Str(opt) == IF opt = Null THEN None ELSE opt[1]

\* A row of the articles table (created_at is never read by the model's code).
Article(id, url, title, content, summary, deep, src, pub, fetched, score, read) ==
    [id |-> id, url |-> url, title |-> title, content |-> content,
     summary |-> summary, deep_analysis |-> deep, source_name |-> src,
     published_date |-> pub, fetched_date |-> fetched,
     relevance_score |-> score, is_read |-> read]

(***************************************************************************)
(* Outside the database: config.json and the processes                     *)
(*                                                                         *)
(* The interactive session and the scheduled job are two processes; each   *)
(* imports the tool layer and so has its own manager instances.  The       *)
(* configuration is the relevance_threshold key of config.json: Null when  *)
(* the key is absent.  config_file is Null when there is no file.          *)
(***************************************************************************)
Instances == {"session", "job"}

\* The relevance_threshold main.py writes into a new config.json (0.6).
InitialThreshold == 12

\* get_relevance_threshold's default when the key is absent (0.6).
DefaultThreshold == 12

Config(threshold) == [relevance_threshold |-> threshold]

\* FeedbackManager._load_config: {} when the file is missing.
load_config(file) == IF file = Null THEN Config(Null) ELSE file[1]

\* No call of this process is under way.
NoCall == [op |-> "none"]

\* A config.json as main.py creates it, managers constructed on it, no call
\* under way.
InitProcess ==
    /\ config_file = Some(Config(Some(InitialThreshold)))
    /\ managers = [m \in Instances |-> load_config(config_file)]
    /\ calls = [c \in Instances |-> NoCall]
    /\ sequence = 0

(***************************************************************************)
(* Topic extraction                                                        *)
(***************************************************************************)
stop_words ==
    { <<"o", "c", "h">>, <<"e", "l", "l", "e", "r">>, <<"m", "e", "d">>,
      <<"f", "ö", "r">>, <<"a", "v">>, <<"p", "å">>, <<"i">>,
      <<"s", "a", "m", "t">>, <<"e", "n">>, <<"e", "t", "t">>,
      <<"d", "e", "n">>, <<"d", "e", "t">>, <<"o", "m">> }

\* The shortest keyword kept is longer than this.
MinKeywordLen == 2

\* keywords of one profile topic: its lower-cased words that are no stop word
\* and are longer than two characters.
topic_keywords(topic) ==
    {w \in Range(Split(Lower(topic))) : w \notin stop_words /\ Len(w) > MinKeywordLen}

\* topic_keywords of every topic name the model uses, computed once.
KeywordTable == [t \in TopicNames |-> topic_keywords(t)]

\* extract_topics_from_text(text, title) as a set: the profile topics with a
\* keyword occurring in the lower-cased "title text".
extract_topics_from_text(prof, text, title) ==
    LET full_text == Lower(title \o <<" ">> \o Str(text))
    IN  {t \in DOMAIN get_profile(prof) :
            \E kw \in KeywordTable[t] : Contains(full_text, kw)}

\* The orders in which get_profile's dict (ORDER BY weight DESC, ties in any
\* order) can list the topics of `found`.
FoundOrders(prof, found) ==
    {s \in [1..Cardinality(found) -> found] :
        /\ \A i, j \in DOMAIN s : i # j => s[i] # s[j]
        /\ \A i, j \in DOMAIN s :
              i < j => get_profile(prof)[s[i]].weight >= get_profile(prof)[s[j]].weight}

(***************************************************************************)
(* Learning from feedback                                                  *)
(***************************************************************************)
\* A delta table whose rating 4 moves a weight as far as rating 5.
delta_map_coarse(rating) ==
    CASE rating >= 4 -> 2 [] rating = 3 -> 0 [] rating = 2 -> -1 [] rating = 1 -> -2
      [] OTHER -> 0

\* delta_map.get(rating, 0.0), in twentieths.
delta_map(rating) ==
    CASE rating = 5 -> 2 [] rating = 4 -> 1 [] rating = 3 -> 0
      [] rating = 2 -> -1 [] rating = 1 -> -2 [] OTHER -> 0

\* The loop of learn_from_feedback over the found topics: the table it leaves
\* and the updates list it returns.
RECURSIVE LearnLoop(_, _, _, _)
LearnLoop(prof, topics, delta, updates) ==
    IF topics = <<>>
    THEN [prof |-> prof, updates |-> updates]
    ELSE LearnLoop(AdjustRows(prof, Head(topics), delta), Tail(topics), delta,
                   Append(updates, <<Head(topics), AdjustReturn(prof, Head(topics), delta)>>))

\* The article row learn_from_feedback loads: SELECT * FROM articles WHERE id = ?
FindArticle(arts, article_id) == {a \in arts : a.id = article_id}

\* Learning that falls back to every profile topic when the text matches none.
LearnTopicsFallback(arts, prof, article_id) ==
    IF FindArticle(arts, article_id) = {}
    THEN {}
    ELSE LET a == CHOOSE a \in FindArticle(arts, article_id) : TRUE
             found == extract_topics_from_text(prof, a.content, a.title)
         IN  IF found = {} THEN DOMAIN get_profile(prof) ELSE found

\* The topics learn_from_feedback extracts for an article id (none when the
\* article does not exist).
LearnTopics(arts, prof, article_id) ==
    IF FindArticle(arts, article_id) = {}
    THEN {}
    ELSE LET a == CHOOSE a \in FindArticle(arts, article_id) : TRUE
         IN  extract_topics_from_text(prof, a.content, a.title)

(***************************************************************************)
(* ProfileManager operations as actions                                    *)
(***************************************************************************)
Ret(op, args, value) == [op |-> op, args |-> args, value |-> value]

\* The write budget of a topic row is not used up.
CanWrite(prof, topic) ==
    \A r \in prof : r.topic = topic => r.sample_count < MaxSamples

\* weight given to a configured topic by _init_default_topics
ConfigWeight(topic) ==
    IF topic \in ConfigHigh THEN 16
    ELSE IF topic \in ConfigMedium THEN 12
    ELSE IF topic \in ConfigLow THEN 10
    ELSE 14

RECURSIVE SeedTopics(_, _)
SeedTopics(prof, topics) ==
    IF topics = <<>> THEN prof
    ELSE SeedTopics(UpdateTopicRows(prof, Head(topics), ConfigWeight(Head(topics)), "explicit"),
                    Tail(topics))

\* The table after _init_default_topics.
InitDefaultTopics(prof) ==
    IF Cardinality(prof) = 0 THEN SeedTopics(prof, ConfigTopics) ELSE prof

\* ProfileManager(db): the constructor run by a new session or job.
ProfileManager_init ==
    /\ profile' = InitDefaultTopics(profile)
    /\ ret' = Ret("ProfileManager", <<>>, <<>>)
    /\ UNCHANGED <<articles, feedback, process>>

update_topic(topic, weight, source) ==
    /\ CanWrite(profile, topic)
    /\ profile' = UpdateTopicRows(profile, topic, weight, source)
    /\ ret' = Ret("update_topic", [topic |-> topic, weight |-> weight, source |-> source], TRUE)
    /\ UNCHANGED <<articles, feedback, process>>

adjust_topic_weight(topic, delta) ==
    /\ CanWrite(profile, topic)
    /\ profile' = AdjustRows(profile, topic, delta)
    /\ ret' = Ret("adjust_topic_weight", [topic |-> topic, delta |-> delta],
                  AdjustReturn(profile, topic, delta))
    /\ UNCHANGED <<articles, feedback, process>>

remove_topic(topic) ==
    /\ profile' = {r \in profile : r.topic # topic}
    /\ ret' = Ret("remove_topic", [topic |-> topic], \E r \in profile : r.topic = topic)
    /\ UNCHANGED <<articles, feedback, process>>

\* learn_from_feedback returns None (no updates list) on its two early returns.
learn_from_feedback(article_id, rating) ==
    LET found == LearnTopics(articles, profile, article_id)
    IN  /\ \A t \in found : CanWrite(profile, t)
        /\ IF found = {}
           THEN /\ profile' = profile
                /\ ret' = Ret("learn_from_feedback",
                              [article_id |-> article_id, rating |-> rating],
                              [none |-> TRUE, updates |-> <<>>])
           ELSE \E topics \in FoundOrders(profile, found) :
                   LET done == LearnLoop(profile, topics, delta_map(rating), <<>>)
                   IN  /\ profile' = done.prof
                       /\ ret' = Ret("learn_from_feedback",
                                     [article_id |-> article_id, rating |-> rating],
                                     [none |-> FALSE, updates |-> done.updates])
        /\ UNCHANGED <<articles, feedback, process>>

\* The weight from which a learned topic is emerging: 0.6.
EmergingWeight == 12

\* What analyze_profile_evolution returns (top_topics left out); the
\* emerging topics as the set of their (topic, weight) pairs.
ProfileEvolution(prof) ==
    LET explicit_topics == {t \in DOMAIN get_profile(prof) :
                               get_profile(prof)[t].source = "explicit"}
        learned_topics == {t \in DOMAIN get_profile(prof) :
                              get_profile(prof)[t].source = "learned"}
    IN  [total_topics |-> Cardinality(DOMAIN get_profile(prof)),
         explicit_count |-> Cardinality(explicit_topics),
         learned_count |-> Cardinality(learned_topics),
         emerging_topics |->
            {<<t, get_profile(prof)[t].weight>> :
                t \in {u \in learned_topics : get_profile(prof)[u].weight >= EmergingWeight}}]

analyze_profile_evolution ==
    /\ ret' = Ret("analyze_profile_evolution", <<>>, ProfileEvolution(profile))
    /\ UNCHANGED <<articles, feedback, profile, process>>

(***************************************************************************)
(* Profile specification: the profile operations over a fixed corpus       *)
(***************************************************************************)
\* "RUST" / "och ai": matches the Rust topic only.
LearnArticle1 ==
    Article(1, <<"u", "1">>, <<"R", "U", "S", "T">>, Some(<<"o", "c", "h", " ", "a", "i">>),
            Null, Null, <<"S", "V", "T">>, Null, 1, Null, FALSE)

\* "Mat" / "trust": matches both topics.
LearnArticle2 ==
    Article(2, <<"u", "2">>, <<"M", "a", "t">>, Some(<<"t", "r", "u", "s", "t">>),
            Null, Null, <<"D", "N">>, Null, 1, Null, FALSE)

\* "Go" with no content: matches no topic.
LearnArticle3 ==
    Article(3, <<"u", "3">>, <<"G", "o">>, Null,
            Null, Null, <<"D", "N">>, Null, 1, Null, FALSE)

LearnCorpus == {LearnArticle1, LearnArticle2, LearnArticle3}

\* Article ids passed to learn_from_feedback; 4 is no article.
LearnIds == 1..4

Ratings == 1..5

SetWeights == {-5, 10, 25}

\* The provenance tags callers pass to update_topic ("learned" is passed by
\* adjust_topic_weight alone).
UpdateSources == {"explicit", "agent_updated"}

Deltas == {-200, 200}

InitProfile ==
    /\ articles = LearnCorpus
    /\ feedback = {}
    /\ profile = InitDefaultTopics({})
    /\ ret = Ret("ProfileManager", <<>>, <<>>)
    /\ InitProcess

NextProfile ==
    \/ ProfileManager_init
    \/ \E t \in TopicNames, w \in SetWeights, s \in UpdateSources : update_topic(t, w, s)
    \/ \E t \in TopicNames, d \in Deltas : adjust_topic_weight(t, d)
    \/ \E t \in TopicNames : remove_topic(t)
    \/ \E id \in LearnIds, r \in Ratings : learn_from_feedback(id, r)
    \/ analyze_profile_evolution

SpecProfile == InitProfile /\ [][NextProfile]_vars

(***************************************************************************)
(* ArticleManager: read state                                              *)
(***************************************************************************)
\* mark_as_read: UPDATE articles SET is_read = 1 WHERE id = ?
MarkReadRows(arts, article_id) ==
    {IF a.id = article_id THEN [a EXCEPT !.is_read = TRUE] ELSE a : a \in arts}

\* mark_all_as_read: UPDATE articles SET is_read = 1 WHERE is_read = 0
MarkAllReadRows(arts) == {[a EXCEPT !.is_read = TRUE] : a \in arts}

(***************************************************************************)
(* ArticleManager.query_articles_advanced                                  *)
(*                                                                         *)
(* Dates are day numbers (the code compares ISO strings, whose order is    *)
(* the order of the instants).  A joined row is <<article, f>> with f the  *)
(* feedback row of the LEFT JOIN, or Null.                                 *)
(***************************************************************************)
\* The day datetime.now() / date('now') falls on.
Now == 40

\* Code order of the characters the model uses (BINARY collation).
Alphabet ==
    <<" ", "1", "2", "3", "4", "5", "A", "D", "G", "I", "M", "N", "R", "S", "T", "U", "V",
      "a", "c", "d", "e", "g", "h", "i", "m", "n", "o", "r", "s", "t", "u", "v", "x">>

CharRank(c) == CHOOSE i \in DOMAIN Alphabet : Alphabet[i] = c

\* s < t for TEXT values.
RECURSIVE StrLess(_, _)
StrLess(s, t) ==
    IF t = <<>> THEN FALSE
    ELSE IF s = <<>> THEN TRUE
    ELSE IF CharRank(Head(s)) # CharRank(Head(t))
         THEN CharRank(Head(s)) < CharRank(Head(t))
         ELSE StrLess(Tail(s), Tail(t))

\* SQLite's  text LIKE '%q%'  for a wildcard-free q: case-insensitive on ASCII,
\* NULL (not true) for a NULL text.
Like(text, q) == text # Null /\ Contains(Lower(text[1]), Lower(q))

\* Python truthiness of an Optional[str]: None and "" are false.
TruthyText(opt) == opt # Null /\ Len(opt[1]) > 0

\* Python truthiness of an Optional[int]: None and 0 are false.
TruthyNum(opt) == opt # Null /\ opt[1] # 0

\* Python truthiness of an optional date or keyword string: the model passes no
\* empty one, so only None is false.
TruthyDate(opt) == opt # Null

default_query ==
    [read_status |-> "all", limit |-> Null, offset |-> 0,
     source |-> Null, sources |-> <<>>, exclude_sources |-> <<>>,
     min_relevance |-> Null, max_relevance |-> Null, has_summary |-> Null,
     published_after |-> Null, published_before |-> Null,
     fetched_after |-> Null, fetched_before |-> Null, last_n_days |-> Null,
     search_query |-> Null, search_in |-> "all", exclude_query |-> Null,
     with_feedback |-> Null, min_rating |-> Null, controversial |-> Null,
     sort_by |-> "relevance_desc", group_by |-> Null,
     include_content |-> FALSE, include_feedback |-> FALSE, stats_only |-> FALSE]

\* "Add joins for feedback queries"
NeedsJoin(cfg) ==
    \/ cfg.with_feedback # Null
    \/ cfg.min_rating # Null
    \/ cfg.controversial # Null
    \/ cfg.include_feedback

\* FROM articles a [LEFT JOIN feedback f ON a.id = f.article_id]
JoinRows(arts, fb, cfg) ==
    IF NeedsJoin(cfg)
    THEN UNION {{<<a, Some(f)>> : f \in {g \in fb : g.article_id = a.id}} : a \in arts}
         \cup {<<a, Null>> : a \in {b \in arts : \A f \in fb : f.article_id # b.id}}
    ELSE {<<a, Null>> : a \in arts}

\* The subquery of the controversial filter: article ids with at least three
\* feedback rows whose ratings spread by three or more.
ControversialIds(fb) ==
    {id \in {f.article_id : f \in fb} :
        LET rs == {f \in fb : f.article_id = id}
        IN  /\ Cardinality(rs) >= 3
            /\ \E f1, f2 \in rs : f1.rating - f2.rating >= 3}

CondReadStatus(cfg, a) ==
    /\ cfg.read_status = "unread" => ~a.is_read
    /\ cfg.read_status = "read" => a.is_read

\* source wins over sources: `if source: ... elif sources: ...`
CondSources(cfg, a) ==
    /\ IF TruthyText(cfg.source)
       THEN Contains(Lower(a.source_name), Lower(cfg.source[1]))
       ELSE cfg.sources # <<>> => a.source_name \in Range(cfg.sources)
    /\ cfg.exclude_sources # <<>> => a.source_name \notin Range(cfg.exclude_sources)

CondRelevance(cfg, a) ==
    /\ cfg.min_relevance # Null =>
          a.relevance_score # Null /\ a.relevance_score[1] >= cfg.min_relevance[1]
    /\ cfg.max_relevance # Null =>
          a.relevance_score # Null /\ a.relevance_score[1] <= cfg.max_relevance[1]
    /\ cfg.has_summary # Null =>
          IF cfg.has_summary[1] THEN a.summary # Null ELSE a.summary = Null

CondTemporal(cfg, a) ==
    /\ cfg.last_n_days # Null =>
          a.published_date # Null /\ a.published_date[1] >= Now - cfg.last_n_days[1]
    /\ TruthyDate(cfg.published_after) =>
          a.published_date # Null /\ a.published_date[1] >= cfg.published_after[1]
    /\ TruthyDate(cfg.published_before) =>
          a.published_date # Null /\ a.published_date[1] <= cfg.published_before[1]
    /\ TruthyDate(cfg.fetched_after) => a.fetched_date >= cfg.fetched_after[1]
    /\ TruthyDate(cfg.fetched_before) => a.fetched_date <= cfg.fetched_before[1]

CondText(cfg, a) ==
    /\ (TruthyText(cfg.search_query) /\ cfg.search_in \in {"all", "title", "content", "summary"}) =>
          \/ cfg.search_in \in {"all", "title"} /\ Like(Some(a.title), cfg.search_query[1])
          \/ cfg.search_in \in {"all", "content"} /\ Like(a.content, cfg.search_query[1])
          \/ cfg.search_in \in {"all", "summary"} /\ Like(a.summary, cfg.search_query[1])
    /\ TruthyText(cfg.exclude_query) =>
          /\ ~Like(Some(a.title), cfg.exclude_query[1])
          /\ (a.content = Null \/ ~Like(a.content, cfg.exclude_query[1]))

\* controversial = False adds no condition.
CondFeedback(cfg, a, f, fb) ==
    /\ cfg.with_feedback # Null =>
          IF cfg.with_feedback[1] THEN f # Null ELSE f = Null
    /\ cfg.min_rating # Null => f # Null /\ f[1].rating >= cfg.min_rating[1]
    /\ (cfg.controversial # Null /\ cfg.controversial[1]) => a.id \in ControversialIds(fb)

\* The WHERE clause: the conjunction of the conditions collected.
Where(cfg, a, f, fb) ==
    /\ CondReadStatus(cfg, a)
    /\ CondSources(cfg, a)
    /\ CondRelevance(cfg, a)
    /\ CondTemporal(cfg, a)
    /\ CondText(cfg, a)
    /\ CondFeedback(cfg, a, f, fb)

\* The joined rows the WHERE clause keeps.
Filtered(arts, fb, cfg) ==
    {p \in JoinRows(arts, fb, cfg) : Where(cfg, p[1], p[2], fb)}

\* GROUP BY a.id when include_feedback or group_by == "article".
Grouped(rows, cfg) ==
    IF cfg.include_feedback \/ cfg.group_by = Some("article")
    THEN {<<a, Null>> : a \in {p[1] : p \in rows}}
    ELSE rows

\* x sorts strictly before y under a nullable key: NULLS LAST in both directions.
NullsLastBefore(x, y, desc) ==
    IF x = Null THEN FALSE
    ELSE IF y = Null THEN TRUE
    ELSE IF desc THEN x[1] > y[1] ELSE x[1] < y[1]

\* Row a sorts strictly before row b under sort_mapping[sort_by]
\* (an unknown sort_by orders by published_date DESC, whose NULLs come last).
RowBefore(sort_by, a, b) ==
    CASE sort_by = "relevance_desc" -> NullsLastBefore(a.relevance_score, b.relevance_score, TRUE)
      [] sort_by = "relevance_asc" -> NullsLastBefore(a.relevance_score, b.relevance_score, FALSE)
      [] sort_by = "published_desc" -> NullsLastBefore(a.published_date, b.published_date, TRUE)
      [] sort_by = "published_asc" -> NullsLastBefore(a.published_date, b.published_date, FALSE)
      [] sort_by = "fetched_desc" -> a.fetched_date > b.fetched_date
      [] sort_by = "fetched_asc" -> a.fetched_date < b.fetched_date
      [] sort_by = "title" -> StrLess(a.title, b.title)
      [] sort_by = "source" ->
            \/ StrLess(a.source_name, b.source_name)
            \/ /\ a.source_name = b.source_name
               /\ NullsLastBefore(a.published_date, b.published_date, TRUE)
      [] OTHER -> NullsLastBefore(a.published_date, b.published_date, TRUE)

\* Every order ORDER BY may return the rows in (rows with equal keys in any order).
RECURSIVE SortedSeqs(_, _)
SortedSeqs(rows, sort_by) ==
    IF rows = {} THEN {<<>>}
    ELSE UNION {{<<x>> \o t : t \in SortedSeqs(rows \ {x}, sort_by)} :
                   x \in {y \in rows : \A z \in rows : ~RowBefore(sort_by, z[1], y[1])}}

\* LIMIT ? when limit is truthy; OFFSET ? when offset > 0.
Paginate(seq, cfg) ==
    LET from == cfg.offset + 1
        to   == IF TruthyNum(cfg.limit) THEN Min(Len(seq), cfg.offset + cfg.limit[1]) ELSE Len(seq)
    IN  IF from > to THEN <<>> ELSE SubSeq(seq, from, to)

\* "OFFSET ?" appended to a query with no LIMIT is a syntax error in SQLite.
QuerySyntaxError(cfg) == cfg.offset > 0 /\ ~TruthyNum(cfg.limit)

\* The columns of the SELECT clause: a.* with include_content, else the listed
\* columns (no content, no deep_analysis).
Project(a, cfg) ==
    IF cfg.include_content
    THEN a
    ELSE [k \in {"id", "url", "title", "source_name", "published_date", "fetched_date",
                 "relevance_score", "is_read", "summary"} |-> a[k]]

\* The feedback rows attached to an article, most recent first.
RECURSIVE FeedbackList(_)
FeedbackList(rows) ==
    IF rows = {} THEN <<>>
    ELSE LET f == CHOOSE g \in rows : \A h \in rows : h.created_at <= g.created_at
         IN  <<[rating |-> f.rating, note |-> f.note, created_at |-> f.created_at]>>
                \o FeedbackList(rows \ {f})

WithFeedback(row, fb) ==
    [k \in DOMAIN row \cup {"feedback"} |->
        IF k = "feedback" THEN FeedbackList({f \in fb : f.article_id = row.id}) ELSE row[k]]

\* The list of article dicts built from the fetched rows.
ArticleDicts(seq, fb, cfg) ==
    [i \in DOMAIN seq |->
        IF cfg.include_feedback
        THEN WithFeedback(Project(seq[i][1], cfg), fb)
        ELSE Project(seq[i][1], cfg)]

\* group_by == "source": source name -> the articles of that source, in order.
GroupBySource(dicts) ==
    [src \in {dicts[i].source_name : i \in DOMAIN dicts} |->
        SelectSeq(dicts, LAMBDA d : d.source_name = src)]

QueryValue(error, total_count, dicts, grouped) ==
    [error |-> error, total_count |-> total_count, articles |-> dicts,
     total |-> Len(dicts), grouped |-> grouped]

\* Every result query_articles_advanced(cfg) can return on this store; error
\* stands for the exception the failed statement raises.
QueryResults(arts, fb, cfg) ==
    IF cfg.stats_only
    THEN {QueryValue(FALSE, Some(Cardinality(Filtered(arts, fb, cfg))), <<>>, <<>>)}
    ELSE IF QuerySyntaxError(cfg)
    THEN {QueryValue(TRUE, Null, <<>>, <<>>)}
    ELSE {QueryValue(FALSE, Null, ArticleDicts(Paginate(seq, cfg), fb, cfg),
                     IF cfg.group_by = Some("source")
                     THEN GroupBySource(ArticleDicts(Paginate(seq, cfg), fb, cfg))
                     ELSE <<>>) :
             seq \in SortedSeqs(Grouped(Filtered(arts, fb, cfg), cfg), cfg.sort_by)}

(***************************************************************************)
(* agents/mcp_tools.py: get_articles_tool and search_articles_tool         *)
(***************************************************************************)
\* 0.7, 0.4 and 0.75 in twentieths.
HighThreshold == 14

MediumThreshold == 8

DeepAnalysisFloor == 15

default_args ==
    [read_status |-> "all", source |-> Null, min_relevance |-> Null,
     time_filter |-> Null, fetched_since |-> Null, published_since |-> Null,
     limit |-> Null, offset |-> 0, sort_by |-> "relevance_desc", grouped |-> FALSE]

\* hours_map.get(time_filter, 24), in days.
TimeFilterDays(time_filter) ==
    CASE time_filter = "last_24h" -> 1
      [] time_filter = "last_week" -> 7
      [] time_filter = "last_month" -> 30
      [] OTHER -> 1

\* The query get_articles_tool passes to query_articles_advanced.
ToolQuery(args) ==
    [default_query EXCEPT
        !.read_status = args.read_status,
        !.source = args.source,
        !.min_relevance = args.min_relevance,
        !.fetched_after = IF TruthyDate(args.time_filter)
                          THEN Some(Now - TimeFilterDays(args.time_filter[1]))
                          ELSE args.fetched_since,
        !.published_after = args.published_since,
        !.limit = args.limit,
        !.offset = args.offset,
        !.sort_by = args.sort_by]

\* dict.get(key, default)
DictGet(d, key, default) == IF key \in DOMAIN d THEN d[key] ELSE default

\* The tier the loop body puts one article dict in, or "TypeError" when it
\* compares a None score with a number.
TierOf(article) ==
    LET score    == DictGet(article, "relevance_score", Some(0))
        has_deep == TruthyText(DictGet(article, "deep_analysis", Null))
    IN  IF score = Null THEN "TypeError"
        ELSE LET eff == IF has_deep THEN Max(score[1], DeepAnalysisFloor) ELSE score[1]
             IN  IF eff >= HighThreshold THEN "high"
                 ELSE IF eff >= MediumThreshold THEN "medium"
                 ELSE "low"

presentation_hint(tier) ==
    CASE tier = "high" -> "full" [] tier = "medium" -> "compact" [] OTHER -> "minimal"

\* article_with_hint: the dict with has_deep_analysis, presentation_hint and tier.
WithHint(article) ==
    [k \in DOMAIN article \cup {"has_deep_analysis", "presentation_hint", "tier"} |->
        CASE k = "has_deep_analysis" -> TruthyText(DictGet(article, "deep_analysis", Null))
          [] k = "presentation_hint" -> presentation_hint(TierOf(article))
          [] k = "tier" -> TierOf(article)
          [] OTHER -> article[k]]

\* One tier list: the annotated articles of that tier, in result order.
TierList(dicts, tier) ==
    SelectSeq([i \in DOMAIN dicts |-> WithHint(dicts[i])], LAMBDA d : d.tier = tier)

ToolValue(success, dicts, grouped, high, medium, low) ==
    [success |-> success, articles |-> dicts, total |-> Len(dicts), grouped |-> grouped,
     articles_by_tier |-> [high_relevance |-> high, medium_relevance |-> medium,
                           low_relevance |-> low],
     tier_counts |-> [high |-> Len(high), medium |-> Len(medium), low |-> Len(low)]]

\* The "except Exception" result.
ToolFailure == ToolValue(FALSE, <<>>, FALSE, <<>>, <<>>, <<>>)

\* What get_articles_tool returns for one result of its query.
ToolResult(args, res) ==
    IF res.error THEN ToolFailure
    ELSE IF ~args.grouped THEN ToolValue(TRUE, res.articles, FALSE, <<>>, <<>>, <<>>)
    ELSE IF \E i \in DOMAIN res.articles : TierOf(res.articles[i]) = "TypeError"
    THEN ToolFailure
    ELSE ToolValue(TRUE, res.articles, TRUE,
                   TierList(res.articles, "high"),
                   TierList(res.articles, "medium"),
                   TierList(res.articles, "low"))

\* The query search_articles_tool passes on.
SearchQuery(args) ==
    [default_query EXCEPT
        !.search_query = args.query,
        !.search_in = args.search_in,
        !.min_relevance = args.min_relevance,
        !.limit = args.limit,
        !.sort_by = "relevance_desc"]

\* The result of search_articles_tool when the query parameter is missing.
SearchMissingQuery == QueryValue(TRUE, Some(0), <<>>, <<>>)

(***************************************************************************)
(* Query operations as actions                                             *)
(***************************************************************************)
\* A query that marks the articles it matched as read.
query_articles_advanced_marking(cfg) ==
    \E res \in QueryResults(articles, feedback, cfg) :
        /\ ret' = Ret("query_articles_advanced", cfg, res)
        /\ articles' = {IF \E p \in Filtered(articles, feedback, cfg) : p[1] = a
                        THEN [a EXCEPT !.is_read = TRUE] ELSE a : a \in articles}
        /\ UNCHANGED <<feedback, profile, process>>

query_articles_advanced(cfg) ==
    \E res \in QueryResults(articles, feedback, cfg) :
        /\ ret' = Ret("query_articles_advanced", cfg, res)
        /\ UNCHANGED <<articles, feedback, profile, process>>

get_articles_tool(args) ==
    \E res \in QueryResults(articles, feedback, ToolQuery(args)) :
        /\ ret' = Ret("get_articles_tool", args, ToolResult(args, res))
        /\ UNCHANGED <<articles, feedback, profile, process>>

search_articles_tool(args) ==
    /\ IF ~TruthyText(args.query)
       THEN ret' = Ret("search_articles_tool", args, SearchMissingQuery)
       ELSE \E res \in QueryResults(articles, feedback, SearchQuery(args)) :
               ret' = Ret("search_articles_tool", args, res)
    /\ UNCHANGED <<articles, feedback, profile, process>>

mark_as_read(article_id) ==
    /\ articles' = MarkReadRows(articles, article_id)
    /\ ret' = Ret("mark_as_read", [article_id |-> article_id], <<>>)
    /\ UNCHANGED <<feedback, profile, process>>

mark_all_as_read ==
    /\ articles' = MarkAllReadRows(articles)
    /\ ret' = Ret("mark_all_as_read", <<>>, Cardinality({a \in articles : ~a.is_read}))
    /\ UNCHANGED <<feedback, profile, process>>

\* No call is outstanding: the caller has taken the last result.
Idle == Ret("idle", <<>>, <<>>)

\* The caller takes the result of the call it made.
caller_returns ==
    /\ ret.op # "idle"
    /\ ret' = Idle
    /\ UNCHANGED <<articles, feedback, profile, process>>

(***************************************************************************)
(* Query specification: the query operations and the read-state            *)
(* operations over every small corpus drawn from a pool of articles        *)
(***************************************************************************)
SVT == <<"S", "V", "T">>

DN == <<"D", "N">>

\* At most this many articles are stored.
MaxArticles == 2

\* Unanalyzed, unread, no published date, no feedback.
PoolArticle1 ==
    Article(1, <<"u", "1">>, <<"R", "u", "s", "t">>, Some(<<"a", "i">>),
            Null, Null, SVT, Null, 39, Null, FALSE)

\* Score 0.2 with a deep analysis, read, one feedback row.
PoolArticle2 ==
    Article(2, <<"u", "2">>, <<"M", "a", "t">>, Null,
            Some(<<"r", "u", "s", "t">>), Some(<<"x">>), SVT, Some(38), 39, Some(4), TRUE)

\* Score 0.4, old, unread, three feedback rows with ratings 1, 5, 3.
PoolArticle3 ==
    Article(3, <<"u", "3">>, <<"G", "o">>, Some(<<"R", "u", "s", "t">>),
            Some(<<"a", "i">>), Null, DN, Some(5), 5, Some(8), FALSE)

\* Score 0.7, unread, two feedback rows with ratings 2, 4.
PoolArticle4 ==
    Article(4, <<"u", "4">>, <<"A", "I">>, Some(<<>>),
            Some(<<"x">>), Null, DN, Some(38), 38, Some(14), FALSE)

\* Score 0.75 with a deep analysis, read, old, no published date.
PoolArticle5 ==
    Article(5, <<"u", "5">>, <<"m", "a", "t">>, Some(<<"g", "o">>),
            Some(<<"m", "a", "t">>), Some(<<"x">>), SVT, Null, 5, Some(15), TRUE)

ArticlePool == {PoolArticle1, PoolArticle2, PoolArticle3, PoolArticle4, PoolArticle5}

Feedback(id, article_id, rating) ==
    [id |-> id, article_id |-> article_id, rating |-> rating, note |-> Null,
     created_at |-> id]

FeedbackPool ==
    {Feedback(1, 2, 5), Feedback(2, 3, 1), Feedback(3, 3, 5), Feedback(4, 3, 3),
     Feedback(5, 4, 2), Feedback(6, 4, 4)}

\* One filter argument of query_articles_advanced set to a value.
FilterNames ==
    {"unread", "read", "source", "sources", "exclude_sources", "min_relevance",
     "max_relevance", "has_summary", "no_summary", "last_n_days", "published_after",
     "published_before", "fetched_after", "fetched_before", "search_all",
     "search_title", "search_content", "search_summary", "search_other",
     "exclude_query", "with_feedback", "without_feedback", "min_rating",
     "controversial", "not_controversial"}

Rust == <<"r", "u", "s", "t">>

Filter(name, cfg) ==
    CASE name = "unread" -> [cfg EXCEPT !.read_status = "unread"]
      [] name = "read" -> [cfg EXCEPT !.read_status = "read"]
      [] name = "source" -> [cfg EXCEPT !.source = Some(<<"s", "v">>)]
      [] name = "sources" -> [cfg EXCEPT !.sources = <<DN>>]
      [] name = "exclude_sources" -> [cfg EXCEPT !.exclude_sources = <<SVT>>]
      [] name = "min_relevance" -> [cfg EXCEPT !.min_relevance = Some(8)]
      [] name = "max_relevance" -> [cfg EXCEPT !.max_relevance = Some(8)]
      [] name = "has_summary" -> [cfg EXCEPT !.has_summary = Some(TRUE)]
      [] name = "no_summary" -> [cfg EXCEPT !.has_summary = Some(FALSE)]
      [] name = "last_n_days" -> [cfg EXCEPT !.last_n_days = Some(7)]
      [] name = "published_after" -> [cfg EXCEPT !.published_after = Some(6)]
      [] name = "published_before" -> [cfg EXCEPT !.published_before = Some(6)]
      [] name = "fetched_after" -> [cfg EXCEPT !.fetched_after = Some(6)]
      [] name = "fetched_before" -> [cfg EXCEPT !.fetched_before = Some(6)]
      [] name = "search_all" -> [cfg EXCEPT !.search_query = Some(Rust)]
      [] name = "search_title" ->
            [cfg EXCEPT !.search_query = Some(Rust), !.search_in = "title"]
      [] name = "search_content" ->
            [cfg EXCEPT !.search_query = Some(Rust), !.search_in = "content"]
      [] name = "search_summary" ->
            [cfg EXCEPT !.search_query = Some(Rust), !.search_in = "summary"]
      [] name = "search_other" ->
            [cfg EXCEPT !.search_query = Some(Rust), !.search_in = "body"]
      [] name = "exclude_query" -> [cfg EXCEPT !.exclude_query = Some(Rust)]
      [] name = "with_feedback" -> [cfg EXCEPT !.with_feedback = Some(TRUE)]
      [] name = "without_feedback" -> [cfg EXCEPT !.with_feedback = Some(FALSE)]
      [] name = "min_rating" -> [cfg EXCEPT !.min_rating = Some(4)]
      [] name = "controversial" -> [cfg EXCEPT !.controversial = Some(TRUE)]
      [] name = "not_controversial" -> [cfg EXCEPT !.controversial = Some(FALSE)]
      [] OTHER -> cfg

\* One sorting, pagination or presentation argument set to a value.
PresentationNames ==
    {"relevance_asc", "published_desc", "published_asc", "fetched_desc", "fetched_asc",
     "title", "source_order", "unknown_order", "limit_0", "limit_1", "limit_2", "offset_1",
     "limit_1_offset_1", "group_source", "group_article", "include_content",
     "include_feedback", "stats_only"}

Presentation(name, cfg) ==
    CASE name = "relevance_asc" -> [cfg EXCEPT !.sort_by = "relevance_asc"]
      [] name = "published_desc" -> [cfg EXCEPT !.sort_by = "published_desc"]
      [] name = "published_asc" -> [cfg EXCEPT !.sort_by = "published_asc"]
      [] name = "fetched_desc" -> [cfg EXCEPT !.sort_by = "fetched_desc"]
      [] name = "fetched_asc" -> [cfg EXCEPT !.sort_by = "fetched_asc"]
      [] name = "title" -> [cfg EXCEPT !.sort_by = "title"]
      [] name = "source_order" -> [cfg EXCEPT !.sort_by = "source"]
      [] name = "unknown_order" -> [cfg EXCEPT !.sort_by = "newest"]
      [] name = "limit_0" -> [cfg EXCEPT !.limit = Some(0)]
      [] name = "limit_1" -> [cfg EXCEPT !.limit = Some(1)]
      [] name = "limit_2" -> [cfg EXCEPT !.limit = Some(2)]
      [] name = "offset_1" -> [cfg EXCEPT !.offset = 1]
      [] name = "limit_1_offset_1" -> [cfg EXCEPT !.limit = Some(1), !.offset = 1]
      [] name = "group_source" -> [cfg EXCEPT !.group_by = Some("source")]
      [] name = "group_article" -> [cfg EXCEPT !.group_by = Some("article")]
      [] name = "include_content" -> [cfg EXCEPT !.include_content = TRUE]
      [] name = "include_feedback" -> [cfg EXCEPT !.include_feedback = TRUE]
      [] name = "stats_only" -> [cfg EXCEPT !.stats_only = TRUE]
      [] OTHER -> cfg

\* The queries made: every two filters together with the default presentation,
\* and every presentation with at most one filter.
QueryConfigs ==
    {Filter(f, Filter(g, default_query)) : f, g \in FilterNames \cup {"none"}}
    \cup {Presentation(p, Filter(f, default_query)) :
             p \in PresentationNames, f \in FilterNames \cup {"none"}}

\* The arguments get_articles_tool is called with: flat or grouped, with at most
\* one other argument set.
ToolArgNames ==
    {"none", "unread", "read", "source", "min_relevance", "last_week", "unknown_time",
     "fetched_since", "published_since", "limit_1", "offset_1", "limit_2_offset_1",
     "title", "relevance_asc"}

ToolArg(name, args) ==
    CASE name = "unread" -> [args EXCEPT !.read_status = "unread"]
      [] name = "read" -> [args EXCEPT !.read_status = "read"]
      [] name = "source" -> [args EXCEPT !.source = Some(<<"d", "n">>)]
      [] name = "min_relevance" -> [args EXCEPT !.min_relevance = Some(8)]
      [] name = "last_week" -> [args EXCEPT !.time_filter = Some("last_week")]
      [] name = "unknown_time" -> [args EXCEPT !.time_filter = Some("today")]
      [] name = "fetched_since" -> [args EXCEPT !.fetched_since = Some(6)]
      [] name = "published_since" -> [args EXCEPT !.published_since = Some(6)]
      [] name = "limit_1" -> [args EXCEPT !.limit = Some(1)]
      [] name = "offset_1" -> [args EXCEPT !.offset = 1]
      [] name = "limit_2_offset_1" -> [args EXCEPT !.limit = Some(2), !.offset = 1]
      [] name = "title" -> [args EXCEPT !.sort_by = "title"]
      [] name = "relevance_asc" -> [args EXCEPT !.sort_by = "relevance_asc"]
      [] OTHER -> args

ToolArgs ==
    {[ToolArg(n, default_args) EXCEPT !.grouped = g] : n \in ToolArgNames, g \in BOOLEAN}

SearchArgs ==
    [query : {Null, Some(Rust), Some(<<"a", "i">>)}, search_in : {"all", "title", "summary"},
     min_relevance : {Null, Some(8)}, limit : {Null, Some(1)}]

InitQuery ==
    /\ articles \in {c \in SUBSET ArticlePool : Cardinality(c) <= MaxArticles}
    /\ feedback = {f \in FeedbackPool : \E a \in articles : a.id = f.article_id}
    /\ profile = InitDefaultTopics({})
    /\ ret = Idle
    /\ InitProcess

\* A call is made when no call is outstanding.
NextQuery ==
    \/ \E cfg \in QueryConfigs : ret.op = "idle" /\ query_articles_advanced(cfg)
    \/ \E args \in ToolArgs : ret.op = "idle" /\ get_articles_tool(args)
    \/ \E args \in SearchArgs : ret.op = "idle" /\ search_articles_tool(args)
    \/ \E id \in {a.id : a \in ArticlePool} : ret.op = "idle" /\ mark_as_read(id)
    \/ ret.op = "idle" /\ mark_all_as_read
    \/ caller_returns

SpecQuery == InitQuery /\ [][NextQuery]_vars

(***************************************************************************)
(* core/feed_fetcher.py: ingestion; ArticleManager.save_analysis           *)
(*                                                                         *)
(* A feed entry is what feedparser hands over: link, title, content and    *)
(* published date.  The links of the model carry no scheme and no host, so *)
(* urlparse leaves the path, the parameters, the query and the fragment.   *)
(***************************************************************************)
\* str.find: the first position at or after from whose character is in chars,
\* Len(s) + 1 when there is none.
RECURSIVE FindFrom(_, _, _)
FindFrom(s, chars, from) ==
    IF from > Len(s) THEN Len(s) + 1
    ELSE IF s[from] \in chars THEN from
    ELSE FindFrom(s, chars, from + 1)

\* str.rfind("/"), 0 when there is none.
LastSlash(s) ==
    IF \E i \in DOMAIN s : s[i] = "/"
    THEN CHOOSE i \in DOMAIN s : s[i] = "/" /\ \A j \in DOMAIN s : s[j] = "/" => j <= i
    ELSE 0

\* urlparse(url).path: the fragment is split off at the first "#", the query at
\* the first "?", the parameters at the first ";" of the last path segment.
UrlPath(url) ==
    LET noFragment == SubSeq(url, 1, FindFrom(url, {"#"}, 1) - 1)
        noQuery == SubSeq(noFragment, 1, FindFrom(noFragment, {"?"}, 1) - 1)
    IN  SubSeq(noQuery, 1, FindFrom(noQuery, {";"}, LastSlash(noQuery) + 1) - 1)

\* _normalize_url: the URL without parameters, query and fragment.
normalize_url(url) == IF url = <<>> THEN url ELSE UrlPath(url)

\* fetch_feed: the article stub built from one feed entry.
Stub(entry, name) ==
    [url |-> normalize_url(entry.link), title |-> entry.title, content |-> entry.content,
     source_name |-> name, published_date |-> entry.published]

\* fetch_feed: the stubs of the first max_articles entries that have a URL.
fetch_feed(source, entries, max_articles) ==
    IF source.url = <<>> THEN <<>>
    ELSE LET first == SubSeq(entries, 1, Min(Len(entries), max_articles))
             stubs == [i \in DOMAIN first |-> Stub(first[i], source.name)]
         IN  SelectSeq(stubs, LAMBDA stub : stub.url # <<>>)

\* The largest id of a stored article, 0 when there is none.
LargestId(arts) ==
    IF arts = {} THEN 0 ELSE (CHOOSE a \in arts : \A b \in arts : b.id <= a.id).id

\* AUTOINCREMENT: one more than the largest id ever stored, which is the
\* largest id of a stored article or of a deleted one.
NextId(arts) == Max(sequence, LargestId(arts)) + 1

\* The UNIQUE constraint on articles.url rejects the INSERT.
IntegrityError(arts, stub) == \E a \in arts : a.url = stub.url

\* INSERT OR REPLACE in place of INSERT: the conflicting row gives way.
InsertArticleRowsReplace(arts, stub, now) ==
    {a \in arts : a.url # stub.url} \cup
        {Article(NextId(arts), stub.url, stub.title, Some(stub.content), Null, Null,
                 stub.source_name, stub.published_date, now, Null, FALSE)}

\* fetch_all: the INSERT of one stub in its own transaction.
InsertArticleRows(arts, stub, now) ==
    IF IntegrityError(arts, stub) THEN arts
    ELSE arts \cup
        {Article(NextId(arts), stub.url, stub.title, Some(stub.content), Null, Null,
                 stub.source_name, stub.published_date, now, Null, FALSE)}

\* fetch_all: the inner loop over the stubs of one source.
RECURSIVE SaveArticles(_, _, _)
SaveArticles(acc, stubs, i) ==
    IF i > Len(stubs) THEN acc
    ELSE SaveArticles(
            [acc EXCEPT !.articles = InsertArticleRows(acc.articles, stubs[i], Now),
                        !.total_new = IF IntegrityError(acc.articles, stubs[i])
                                      THEN acc.total_new ELSE acc.total_new + 1],
            stubs, i + 1)

\* fetch_all: the outer loop over the configured sources.
RECURSIVE FetchSources(_, _, _, _, _)
FetchSources(acc, sources, feeds, max_articles, s) ==
    IF s > Len(sources) THEN acc
    ELSE LET stubs == fetch_feed(sources[s], feeds[s], max_articles)
         IN  FetchSources(
                 SaveArticles([acc EXCEPT !.total_fetched = acc.total_fetched + Len(stubs)],
                              stubs, 1),
                 sources, feeds, max_articles, s + 1)

\* SourceManager.list_sources: the configured feeds.
ConfigSources ==
    << [name |-> <<"S", "V", "T">>, url |-> <<"s">>],
       [name |-> <<"D", "N">>, url |-> <<"d">>] >>

\* fetch_all, with feeds[s] the entries the feed of source s serves.
fetch_all(feeds, max_articles_per_source) ==
    LET out == FetchSources([articles |-> articles, total_fetched |-> 0, total_new |-> 0],
                            ConfigSources, feeds, max_articles_per_source, 1)
    IN  /\ articles' = out.articles
        /\ ret' = Ret("fetch_all",
                      [feeds |-> feeds, max_articles_per_source |-> max_articles_per_source],
                      [total_fetched |-> out.total_fetched, total_new |-> out.total_new,
                       total_sources |-> Len(ConfigSources), errors |-> <<>>])
        /\ UNCHANGED <<feedback, profile, process>>

\* save_analysis: UPDATE articles SET summary = ?, relevance_score = ? WHERE id = ?
SaveAnalysisRows(arts, article_id, summary, relevance_score) ==
    {IF a.id = article_id
     THEN [a EXCEPT !.summary = Some(summary), !.relevance_score = Some(relevance_score)]
     ELSE a : a \in arts}

save_analysis(article_id, summary, relevance_score) ==
    /\ articles' = SaveAnalysisRows(articles, article_id, summary, relevance_score)
    /\ ret' = Ret("save_analysis",
                  [article_id |-> article_id, summary |-> summary,
                   relevance_score |-> relevance_score],
                  \E a \in articles : a.id = article_id)
    /\ UNCHANGED <<feedback, profile, process>>

(***************************************************************************)
(* Ingestion specification: batches of feed entries into an empty store,   *)
(* with analysis and read marks in between                                 *)
(***************************************************************************)
\* The largest number of entries the feeds serve in one fetch_all.
MaxBatch == 2

DefaultMaxArticlesPerSource == 50

Entry(link, title, content, published) ==
    [link |-> link, title |-> title, content |-> content, published |-> published]

\* Two entries of one article (the second with a tracking parameter and a new
\* title), an entry with parameters and a fragment, an entry whose link is
\* nothing but a query.
FeedEntries ==
    { Entry(<<"a">>, <<"R", "u", "s", "t">>, <<"a", "i">>, Some(38)),
      Entry(<<"a", "?", "t">>, <<"M", "a", "t">>, <<>>, Null),
      Entry(<<"x", "/", "b", ";", "p", "#", "f">>, <<"G", "o">>, <<"a", "i">>, Null),
      Entry(<<"?", "t">>, <<"G", "o">>, <<>>, Null) }

EntrySeqs(n) == UNION {[1..k -> FeedEntries] : k \in 0..n}

\* One feed per configured source, MaxBatch entries at most in all.
FeedBatches ==
    {feeds \in [1..Len(ConfigSources) -> EntrySeqs(MaxBatch)] :
        Len(feeds[1]) + Len(feeds[2]) <= MaxBatch}

IngestIds == 1..3

AnalysisSummary == <<"s">>

InitIngest ==
    /\ articles = {}
    /\ feedback = {}
    /\ profile = InitDefaultTopics({})
    /\ ret = Idle
    /\ InitProcess

\* A call is made when no call is outstanding.
NextIngest ==
    \/ \E feeds \in FeedBatches, m \in {1, DefaultMaxArticlesPerSource} :
          ret.op = "idle" /\ fetch_all(feeds, m)
    \/ \E id \in IngestIds :
          ret.op = "idle" /\ save_analysis(id, AnalysisSummary, HighThreshold)
    \/ \E id \in IngestIds : ret.op = "idle" /\ mark_as_read(id)
    \/ caller_returns

SpecIngest == InitIngest /\ [][NextIngest]_vars

(***************************************************************************)
(* agents/mcp_tools.py: save_feedback_tool and save_article_analysis_tool  *)
(***************************************************************************)
\* The largest number of feedback rows.
MaxFeedback == 2

\* if not 1 <= rating <= 5
RatingValidUpToTen(rating) == 1 <= rating /\ rating <= 10

RatingValid(rating) == 1 <= rating /\ rating <= 5

\* AUTOINCREMENT of feedback.id (no feedback row is ever deleted).
NextFeedbackId(fb) ==
    IF fb = {} THEN 1
    ELSE (CHOOSE f \in fb : \A g \in fb : g.id <= f.id).id + 1

\* CHECK(rating >= 1 AND rating <= 5) rejects the INSERT.  The foreign key on
\* article_id is declared but not enforced: the connection never turns
\* PRAGMA foreign_keys on.
FeedbackIntegrityError(rating) == ~(rating >= 1 /\ rating <= 5)

\* A table that keeps the latest rating of an article only.
AddFeedbackRowsLatestOnly(fb, article_id, rating) ==
    {f \in fb : f.article_id # article_id}
        \cup {[id |-> NextFeedbackId(fb), article_id |-> article_id, rating |-> rating,
                note |-> Null, created_at |-> NextFeedbackId(fb)]}

\* add_feedback: INSERT INTO feedback (article_id, rating, note, created_at)
AddFeedbackRows(fb, article_id, rating) ==
    fb \cup {[id |-> NextFeedbackId(fb), article_id |-> article_id, rating |-> rating,
              note |-> Null, created_at |-> NextFeedbackId(fb)]}

\* What learn_from_feedback can leave and return: the table, the updates list,
\* and whether it returned None.
LearnOutcomes(arts, prof, article_id, rating) ==
    LET found == LearnTopics(arts, prof, article_id)
    IN  IF found = {}
        THEN {[prof |-> prof, updates |-> <<>>, none |-> TRUE]}
        ELSE {[prof |-> LearnLoop(prof, topics, delta_map(rating), <<>>).prof,
               updates |-> LearnLoop(prof, topics, delta_map(rating), <<>>).updates,
               none |-> FALSE] : topics \in FoundOrders(prof, found)}

FeedbackValue(success, raised, feedback_id, profile_updates) ==
    [success |-> success, raised |-> raised, feedback_id |-> feedback_id,
     profile_updates |-> profile_updates]

\* save_feedback_tool: validate, add_feedback, mark_as_read, learn_from_feedback.
\* An IntegrityError of the INSERT is not caught: the call raises.
save_feedback_tool(args) ==
    /\ Cardinality(feedback) < MaxFeedback
    /\ IF ~RatingValid(args.rating)
       THEN /\ ret' = Ret("save_feedback_tool", args, FeedbackValue(FALSE, FALSE, 0, <<>>))
            /\ UNCHANGED <<articles, feedback, profile, process>>
       ELSE IF FeedbackIntegrityError(args.rating)
       THEN /\ ret' = Ret("save_feedback_tool", args, FeedbackValue(FALSE, TRUE, 0, <<>>))
            /\ UNCHANGED <<articles, feedback, profile, process>>
       ELSE \E out \in LearnOutcomes(articles, profile, args.article_id, args.rating) :
               /\ feedback' = AddFeedbackRows(feedback, args.article_id, args.rating)
               /\ articles' = MarkReadRows(articles, args.article_id)
               /\ profile' = out.prof
               /\ ret' = Ret("save_feedback_tool", args,
                             FeedbackValue(TRUE, FALSE, NextFeedbackId(feedback), out.updates))
               /\ UNCHANGED process

\* str.strip() on the texts the model uses: blanks at both ends go.
RECURSIVE LStrip(_)
LStrip(s) == IF s # <<>> /\ Head(s) = " " THEN LStrip(Tail(s)) ELSE s

RECURSIVE RStrip(_)
RStrip(s) ==
    IF s # <<>> /\ s[Len(s)] = " " THEN RStrip(SubSeq(s, 1, Len(s) - 1)) ELSE s

Strip(s) == RStrip(LStrip(s))

\* A check that lets every score up to 2.0 through.
ScoreValidUpToTwo(score) == 0 <= score /\ score <= 2 * One

\* if not 0.0 <= relevance_score <= 1.0
ScoreValid(score) == 0 <= score /\ score <= One

\* save_article_analysis_tool: validate the summary and the score, look the
\* article up, save_analysis.
save_article_analysis_tool(args) ==
    LET summary == Strip(args.summary)
        ok == /\ summary # <<>>
              /\ ScoreValid(args.relevance_score)
              /\ FindArticle(articles, args.article_id) # {}
    IN  /\ articles' = IF ok
                       THEN SaveAnalysisRows(articles, args.article_id, summary,
                                             args.relevance_score)
                       ELSE articles
        /\ ret' = Ret("save_article_analysis_tool", args, [success |-> ok])
        /\ UNCHANGED <<feedback, profile, process>>

(***************************************************************************)
(* core/feedback_manager.py: statistics and the relevance threshold        *)
(*                                                                         *)
(* An average is the pair <<sum, count>>; a rate is the pair               *)
(* <<numerator, denominator>>.                                             *)
(***************************************************************************)
RECURSIVE SumRatings(_)
SumRatings(rows) ==
    IF rows = {} THEN 0
    ELSE LET f == CHOOSE g \in rows : TRUE IN f.rating + SumRatings(rows \ {f})

\* AVG(rating): NULL over no rows.
AvgRating(rows) == IF rows = {} THEN Null ELSE Some(<<SumRatings(rows), Cardinality(rows)>>)

\* SUM(CASE WHEN ... THEN 1 ELSE 0 END): NULL over no rows.
SumWhen(rows, matching) == IF rows = {} THEN Null ELSE Some(Cardinality(matching))

\* get_feedback_stats
get_feedback_stats(fb) ==
    [total_feedback |-> Cardinality(fb),
     avg_rating |-> AvgRating(fb),
     positive_count |-> SumWhen(fb, {f \in fb : f.rating >= 4}),
     negative_count |-> SumWhen(fb, {f \in fb : f.rating <= 2})]

\* feedback f JOIN articles a ON f.article_id = a.id: the feedback rows that
\* have an article (a row has one article at most, the id being the key).
JoinedFeedback(arts, fb) == {f \in fb : \E a \in arts : a.id = f.article_id}

ArticleOf(arts, f) == CHOOSE a \in arts : a.id = f.article_id

\* The feedback count a source needs to be listed.
MinSourceFeedback == 2

\* GROUP BY a.source_name HAVING count >= 2: source -> AVG(f.rating)
SourcePreferences(arts, fb) ==
    LET of(src) == {f \in JoinedFeedback(arts, fb) : ArticleOf(arts, f).source_name = src}
    IN  [src \in {a.source_name : a \in {b \in arts : Cardinality(of(b.source_name))
                                                          >= MinSourceFeedback}}
            |-> AvgRating(of(src))]

\* 0.3 in twentieths.
DiscrepancyMargin == 6

\* The pairs (score, rating) whose difference is the margin exactly in decimal
\* but above it in double arithmetic, as SQLite computes it: 0.4 - 0.1,
\* 0.8 - 0.5, 1.0 - 0.7 and 0.9 - 0.6 all give 0.30000000000000004, while
\* 0.6 - 0.3 and 0.5 - 0.2 give 0.3 and 0.7 - 0.4 gives 0.29999999999999993.
RoundedAboveMargin == {<<2, 2>>, <<10, 4>>, <<14, 5>>, <<18, 3>>}

\* ABS(a.relevance_score - (f.rating / 5.0)) > 0.3 on doubles, for a score that
\* is a multiple of 0.05.
SqlDiscrepancy(score, rating) ==
    \/ (IF score >= 4 * rating THEN score - 4 * rating ELSE 4 * rating - score)
          > DiscrepancyMargin
    \/ <<score, rating>> \in RoundedAboveMargin

\* The pairs with a relevance score, and the discrepancies among them.
PairsWithScores(arts, fb) ==
    {f \in JoinedFeedback(arts, fb) : ArticleOf(arts, f).relevance_score # Null}

Discrepancies(arts, fb) ==
    {f \in PairsWithScores(arts, fb) :
        SqlDiscrepancy(ArticleOf(arts, f).relevance_score[1], f.rating)}

\* 1.0 if total_with_scores == 0 else 1 - discrepancies / total_with_scores
AccuracyRate(discrepancies, total_with_scores) ==
    IF total_with_scores = 0 THEN <<1, 1>>
    ELSE <<total_with_scores - discrepancies, total_with_scores>>

\* self.config.get("relevance_threshold", 0.6)
RelevanceThreshold(config) ==
    IF config.relevance_threshold = Null THEN DefaultThreshold
    ELSE config.relevance_threshold[1]

\* What get_learning_stats of a manager with this configuration returns.
LearningStats(arts, fb, config) ==
    [total_feedback_given |-> get_feedback_stats(fb).total_feedback,
     average_rating |-> get_feedback_stats(fb).avg_rating,
     positive_feedback |-> get_feedback_stats(fb).positive_count,
     negative_feedback |-> get_feedback_stats(fb).negative_count,
     current_threshold |-> RelevanceThreshold(config),
     source_preferences |-> SourcePreferences(arts, fb),
     ai_accuracy |->
        [total_discrepancies |-> Cardinality(Discrepancies(arts, fb)),
         accuracy_rate |-> AccuracyRate(Cardinality(Discrepancies(arts, fb)),
                                        Cardinality(PairsWithScores(arts, fb)))]]

\* get_learning_stats of the FeedbackManager of one process.
get_learning_stats(instance) ==
    /\ ret' = Ret("get_learning_stats", [instance |-> instance],
                  LearningStats(articles, feedback, managers[instance]))
    /\ UNCHANGED <<articles, feedback, profile, process>>

\* FeedbackManager.__init__ in a process: the configuration is loaded once.
FeedbackManager_init(instance) ==
    /\ managers' = [managers EXCEPT ![instance] = load_config(config_file)]
    /\ ret' = Ret("FeedbackManager", [instance |-> instance], <<>>)
    /\ UNCHANGED <<articles, feedback, profile, config_file, calls, sequence>>

get_relevance_threshold(instance) ==
    /\ ret' = Ret("get_relevance_threshold", [instance |-> instance],
                  RelevanceThreshold(managers[instance]))
    /\ UNCHANGED <<articles, feedback, profile, process>>

\* if not 0.0 <= threshold <= 1.0
ThresholdValid(threshold) == 0 <= threshold /\ threshold <= One

\* set_relevance_threshold succeeds: the threshold is valid and config.json
\* can be opened for reading.
SetSucceeds(file, threshold) == ThresholdValid(threshold) /\ file # Null

\* set_relevance_threshold: the file and the configuration of the instance
\* it leaves.
SetThresholdFile(file, threshold) ==
    IF SetSucceeds(file, threshold) THEN Some(Config(Some(threshold))) ELSE file

SetThresholdConfig(file, config, threshold) ==
    IF SetSucceeds(file, threshold) THEN Config(Some(threshold)) ELSE config

set_relevance_threshold(instance, threshold) ==
    /\ config_file' = SetThresholdFile(config_file, threshold)
    /\ managers' = [managers EXCEPT
                       ![instance] = SetThresholdConfig(config_file, managers[instance],
                                                        threshold)]
    /\ ret' = Ret("set_relevance_threshold",
                  [instance |-> instance, threshold |-> threshold],
                  SetSucceeds(config_file, threshold))
    /\ UNCHANGED <<articles, feedback, profile, calls, sequence>>

\* adjust_relevance_threshold_tool of one process: validate, read the old
\* threshold, set the new one.
adjust_relevance_threshold_tool(instance, threshold) ==
    IF ~ThresholdValid(threshold)
    THEN /\ ret' = Ret("adjust_relevance_threshold_tool",
                       [instance |-> instance, threshold |-> threshold],
                       [success |-> FALSE, old_threshold |-> Null, new_threshold |-> Null])
         /\ UNCHANGED <<articles, feedback, profile, process>>
    ELSE /\ config_file' = SetThresholdFile(config_file, threshold)
         /\ managers' = [managers EXCEPT
                            ![instance] = SetThresholdConfig(config_file, managers[instance],
                                                             threshold)]
         /\ ret' = Ret("adjust_relevance_threshold_tool",
                       [instance |-> instance, threshold |-> threshold],
                       [success |-> SetSucceeds(config_file, threshold),
                        old_threshold |-> Some(RelevanceThreshold(managers[instance])),
                        new_threshold |-> Some(threshold)])
         /\ UNCHANGED <<articles, feedback, profile, calls, sequence>>

(***************************************************************************)
(* Threshold specification: two processes reading and setting the          *)
(* relevance threshold                                                     *)
(***************************************************************************)
\* No config.json, one without the key, the one main.py creates.
InitialFiles == {Null, Some(Config(Null)), Some(Config(Some(InitialThreshold)))}

\* -0.05, 0.0, 0.5, 1.0 and 1.05
Thresholds == {-1, 0, 10, 20, 21}

InitThreshold ==
    /\ articles = LearnCorpus
    /\ feedback = {}
    /\ profile = InitDefaultTopics({})
    /\ ret = Idle
    /\ config_file \in InitialFiles
    /\ managers = [m \in Instances |-> load_config(config_file)]
    /\ calls = [c \in Instances |-> NoCall]
    /\ sequence = 0

NextThreshold ==
    \/ \E m \in Instances : FeedbackManager_init(m)
    \/ \E m \in Instances : get_relevance_threshold(m)
    \/ \E m \in Instances, t \in Thresholds : set_relevance_threshold(m, t)
    \/ \E m \in Instances, t \in Thresholds : adjust_relevance_threshold_tool(m, t)
    \/ \E m \in Instances : get_learning_stats(m)

SpecThreshold == InitThreshold /\ [][NextThreshold]_vars

(***************************************************************************)
(* Feedback specification: ratings and analyses over a two-article corpus  *)
(***************************************************************************)
FeedbackCorpus == {LearnArticle1, LearnArticle2}

\* 9 is no article.
FeedbackArticleIds == {1, 2, 9}

FeedbackRatings == {0, 1, 3, 5, 6}

FeedbackArgs ==
    {[article_id |-> id, rating |-> r, note |-> Null] :
        id \in FeedbackArticleIds, r \in FeedbackRatings}

AnalysisSummaries == {<<" ">>, <<"s", " ">>}

\* -0.05, 0.2, 0.7, 0.8, 1.0 and 1.05
AnalysisScores == {-1, 4, 14, 16, 20, 21}

AnalysisArgs ==
    {[article_id |-> id, summary |-> sm, relevance_score |-> sc] :
        id \in FeedbackArticleIds, sm \in AnalysisSummaries, sc \in AnalysisScores}

InitFeedback ==
    /\ articles = FeedbackCorpus
    /\ feedback = {}
    /\ profile = InitDefaultTopics({})
    /\ ret = Idle
    /\ InitProcess

\* A call is made when no call is outstanding.
NextFeedback ==
    \/ \E args \in FeedbackArgs : ret.op = "idle" /\ save_feedback_tool(args)
    \/ \E args \in AnalysisArgs : ret.op = "idle" /\ save_article_analysis_tool(args)
    \/ \E m \in Instances : ret.op = "idle" /\ get_learning_stats(m)
    \/ caller_returns

SpecFeedback == InitFeedback /\ [][NextFeedback]_vars

(***************************************************************************)
(* Two processes at statement granularity                                  *)
(*                                                                         *)
(* Every manager method opens its own connection, and get_connection       *)
(* commits when the method's block ends: get_profile, update_topic,        *)
(* add_feedback and mark_as_read are one transaction each, and a call of   *)
(* adjust_topic_weight, learn_from_feedback or save_feedback_tool is a     *)
(* sequence of them.  calls[p] is the call process p is in: its locals and *)
(* the statement it is at (pc).                                            *)
(***************************************************************************)
Call(op, args, pc, topics, delta, updates, pending, feedback_id) ==
    [op |-> op, args |-> args, pc |-> pc, topics |-> topics, delta |-> delta,
     updates |-> updates, pending |-> pending, feedback_id |-> feedback_id]

\* adjust_topic_weight up to its update_topic call: the arguments of that call
\* and the value the method will return.
AdjustRead(prof, topic, delta) ==
    IF topic \notin DOMAIN get_profile(prof)
    THEN [topic |-> topic, weight |-> BaseWeight + delta, source |-> "learned",
          value |-> BaseWeight + delta]
    ELSE [topic |-> topic,
          weight |-> Max(0, Min(One, get_profile(prof)[topic].weight + delta)),
          source |-> get_profile(prof)[topic].source,
          value |-> Max(0, Min(One, get_profile(prof)[topic].weight + delta))]

\* A write that adds the delta to the weight stored at the time of the write.
AdjustWriteRowsAccumulating(prof, read, delta) ==
    IF read.topic \in DOMAIN get_profile(prof)
    THEN UpdateTopicRows(prof, read.topic, get_profile(prof)[read.topic].weight + delta,
                         read.source)
    ELSE UpdateTopicRows(prof, read.topic, read.weight, read.source)

\* The update_topic call of adjust_topic_weight, on the table as it is then.
AdjustWriteRows(prof, read, delta) ==
    UpdateTopicRows(prof, read.topic, read.weight, read.source)

\* The write budget of a topic row in the interleaved runs: one write more
\* than CanWrite allows, so that two calls can write the same topic.
CanWriteAgain(prof, topic) ==
    \A r \in prof : r.topic = topic => r.sample_count <= MaxSamples

\* Feedback rows recorded in the interleaved runs.
MaxInterleavedFeedback == 1

InProgress(p) == calls[p].op # "none"

InLoop(p) ==
    calls[p].op \in {"learn_from_feedback", "save_feedback_tool"}
        /\ calls[p].pc \in {"read", "write"}

CallValue(raised, success, none, feedback_id, updates, new_weight) ==
    [raised |-> raised, success |-> success, none |-> none, feedback_id |-> feedback_id,
     updates |-> updates, new_weight |-> new_weight]

\* adjust_topic_weight, first statement: get_profile.
adjust_reads(p, topic, delta) ==
    /\ ret.op = "idle"
    /\ ~InProgress(p)
    /\ calls' = [calls EXCEPT ![p] =
                    Call("adjust_topic_weight", [process |-> p, topic |-> topic, delta |-> delta],
                         "write", <<>>, delta, <<>>,
                         Some(AdjustRead(profile, topic, delta)), Null)]
    /\ UNCHANGED <<articles, feedback, profile, ret, config_file, managers, sequence>>

\* adjust_topic_weight, second statement: update_topic, and the return.
adjust_writes(p) ==
    /\ calls[p].op = "adjust_topic_weight"
    /\ CanWriteAgain(profile, calls[p].pending[1].topic)
    /\ profile' = AdjustWriteRows(profile, calls[p].pending[1], calls[p].delta)
    /\ ret' = Ret("adjust_topic_weight", calls[p].args,
                  CallValue(FALSE, TRUE, FALSE, Null, <<>>, Some(calls[p].pending[1].value)))
    /\ calls' = [calls EXCEPT ![p] = NoCall]
    /\ UNCHANGED <<articles, feedback, config_file, managers, sequence>>

\* learn_from_feedback up to its loop: the article is loaded and its topics are
\* extracted against the profile as it is then (get_profile).
learn_starts(p, article_id, rating) ==
    LET args  == [process |-> p, article_id |-> article_id, rating |-> rating]
        found == LearnTopics(articles, profile, article_id)
    IN  /\ ret.op = "idle"
        /\ ~InProgress(p)
        /\ IF found = {}
           THEN /\ ret' = Ret("learn_from_feedback", args,
                              CallValue(FALSE, TRUE, TRUE, Null, <<>>, Null))
                /\ UNCHANGED calls
           ELSE /\ \E topics \in FoundOrders(profile, found) :
                      calls' = [calls EXCEPT ![p] =
                                   Call("learn_from_feedback", args, "read", topics,
                                        delta_map(rating), <<>>, Null, Null)]
                /\ UNCHANGED ret
        /\ UNCHANGED <<articles, feedback, profile, config_file, managers, sequence>>

\* save_feedback_tool up to add_feedback: the rating check and the INSERT.
save_feedback_adds(p, args) ==
    /\ ret.op = "idle"
    /\ ~InProgress(p)
    /\ IF ~RatingValid(args.rating)
       THEN /\ ret' = Ret("save_feedback_tool", [args EXCEPT !.process = p],
                          CallValue(FALSE, FALSE, FALSE, Null, <<>>, Null))
            /\ UNCHANGED <<feedback, calls>>
       ELSE /\ feedback' = AddFeedbackRows(feedback, args.article_id, args.rating)
            /\ calls' = [calls EXCEPT ![p] =
                            Call("save_feedback_tool", [args EXCEPT !.process = p],
                                 "mark_as_read", <<>>, delta_map(args.rating), <<>>, Null,
                                 Some(NextFeedbackId(feedback)))]
            /\ UNCHANGED ret
    /\ UNCHANGED <<articles, profile, config_file, managers, sequence>>

\* save_feedback_tool: mark_as_read.
save_feedback_marks(p) ==
    /\ calls[p].op = "save_feedback_tool"
    /\ calls[p].pc = "mark_as_read"
    /\ articles' = MarkReadRows(articles, calls[p].args.article_id)
    /\ calls' = [calls EXCEPT ![p].pc = "learn"]
    /\ UNCHANGED <<feedback, profile, ret, config_file, managers, sequence>>

\* save_feedback_tool: learn_from_feedback up to its loop, and the return of
\* the tool when there is nothing to learn.
save_feedback_learns(p) ==
    LET found == LearnTopics(articles, profile, calls[p].args.article_id)
    IN  /\ calls[p].op = "save_feedback_tool"
        /\ calls[p].pc = "learn"
        /\ IF found = {}
           THEN /\ ret' = Ret("save_feedback_tool", calls[p].args,
                              CallValue(FALSE, TRUE, TRUE, calls[p].feedback_id, <<>>, Null))
                /\ calls' = [calls EXCEPT ![p] = NoCall]
           ELSE /\ \E topics \in FoundOrders(profile, found) :
                      calls' = [calls EXCEPT ![p].pc = "read", ![p].topics = topics]
                /\ UNCHANGED ret
        /\ UNCHANGED <<articles, feedback, profile, config_file, managers, sequence>>

\* The loop of learn_from_feedback: get_profile of the next adjust_topic_weight.
loop_reads(p) ==
    /\ InLoop(p)
    /\ calls[p].pc = "read"
    /\ calls' = [calls EXCEPT
                    ![p].pc = "write",
                    ![p].pending = Some(AdjustRead(profile, Head(calls[p].topics),
                                                   calls[p].delta))]
    /\ UNCHANGED <<articles, feedback, profile, ret, config_file, managers, sequence>>

\* The loop of learn_from_feedback: update_topic of that adjust_topic_weight,
\* the append to updates, and the return after the last topic.
loop_writes(p) ==
    LET read    == calls[p].pending[1]
        updates == Append(calls[p].updates, <<read.topic, read.value>>)
    IN  /\ InLoop(p)
        /\ calls[p].pc = "write"
        /\ CanWriteAgain(profile, read.topic)
        /\ profile' = AdjustWriteRows(profile, read, calls[p].delta)
        /\ IF Tail(calls[p].topics) = <<>>
           THEN /\ ret' = Ret(calls[p].op, calls[p].args,
                              CallValue(FALSE, TRUE, FALSE, calls[p].feedback_id, updates, Null))
                /\ calls' = [calls EXCEPT ![p] = NoCall]
           ELSE /\ calls' = [calls EXCEPT ![p].pc = "read", ![p].pending = Null,
                                          ![p].topics = Tail(calls[p].topics),
                                          ![p].updates = updates]
                /\ UNCHANGED ret
        /\ UNCHANGED <<articles, feedback, config_file, managers, sequence>>

\* The statement the call is at raises (the database is locked by the other
\* process for longer than the timeout, or the process is stopped): its own
\* transaction is rolled back (database.py:30-32) and the exception leaves the
\* call; what earlier statements committed is in the database.
call_fails(p) ==
    /\ InProgress(p)
    /\ ret' = Ret(calls[p].op, calls[p].args,
                  CallValue(TRUE, FALSE, FALSE, calls[p].feedback_id, calls[p].updates, Null))
    /\ calls' = [calls EXCEPT ![p] = NoCall]
    /\ UNCHANGED <<articles, feedback, profile, config_file, managers, sequence>>

\* get_profile by a process that is in no call.
get_profile_reads(p) ==
    /\ ret.op = "idle"
    /\ ~InProgress(p)
    /\ ret' = Ret("get_profile", [process |-> p], profile)
    /\ UNCHANGED <<articles, feedback, profile, process>>

(***************************************************************************)
(* Interleaving specification: the session and the job adjust, learn and   *)
(* record feedback at the same time                                        *)
(***************************************************************************)
\* +0.10 and -0.10
InterleavedDeltas == {-2, 2}

InterleavedRatings == {5}

InterleavedToolRatings == {5, 6}

\* Article 2 matches both topics, article 3 none.
InterleavedArticleIds == {2, 3}

InterleavedFeedbackArgs ==
    {[process |-> "", article_id |-> id, rating |-> r, note |-> Null] :
        id \in {2}, r \in InterleavedToolRatings}

InitInterleaved ==
    /\ articles = LearnCorpus
    /\ feedback = {}
    /\ profile = InitDefaultTopics({})
    /\ ret = Idle
    /\ InitProcess

NextInterleaved ==
    \/ \E p \in Instances, t \in TopicNames, d \in InterleavedDeltas : adjust_reads(p, t, d)
    \/ \E p \in Instances : adjust_writes(p)
    \/ \E p \in Instances, id \in InterleavedArticleIds, r \in InterleavedRatings :
          learn_starts(p, id, r)
    \/ \E p \in Instances, args \in InterleavedFeedbackArgs :
          Cardinality(feedback) < MaxInterleavedFeedback /\ save_feedback_adds(p, args)
    \/ \E p \in Instances : save_feedback_marks(p)
    \/ \E p \in Instances : save_feedback_learns(p)
    \/ \E p \in Instances : loop_reads(p)
    \/ \E p \in Instances : loop_writes(p)
    \/ \E p \in Instances : call_fails(p)
    \/ \E p \in Instances : get_profile_reads(p)
    \/ caller_returns

SpecInterleaved == InitInterleaved /\ [][NextInterleaved]_vars

(***************************************************************************)
(* core/feedback_manager.py: get_stats; the statistics specification       *)
(***************************************************************************)
\* relevance_score >= 0.6 in get_stats, in twentieths.
RelevantFloor == 12

\* COUNT(DISTINCT source_name) and the articles_by_source dict.
ArticlesBySource(arts) ==
    [src \in {a.source_name : a \in arts} |-> Cardinality({a \in arts : a.source_name = src})]

\* What get_stats returns: COUNT(*) is 0 over no rows, SUM(CASE ...) is NULL.
GeneralStats(arts, fb) ==
    [total_articles |-> Cardinality(arts),
     unread_count |-> SumWhen(arts, {a \in arts : ~a.is_read}),
     relevant_count |->
        SumWhen(arts, {a \in arts : a.relevance_score # Null
                                       /\ a.relevance_score[1] >= RelevantFloor}),
     total_feedback |-> Cardinality(fb),
     avg_rating |-> AvgRating(fb),
     source_count |-> Cardinality(DOMAIN ArticlesBySource(arts)),
     articles_by_source |-> ArticlesBySource(arts)]

FeedbackManager_get_feedback_stats ==
    /\ ret' = Ret("get_feedback_stats", <<>>, get_feedback_stats(feedback))
    /\ UNCHANGED <<articles, feedback, profile, process>>

get_stats ==
    /\ ret' = Ret("get_stats", <<>>, GeneralStats(articles, feedback))
    /\ UNCHANGED <<articles, feedback, profile, process>>

\* The queries of the statistics runs: one filter or one presentation argument.
StatsQueryConfigs ==
    {Filter(f, default_query) : f \in FilterNames \cup {"none"}}
    \cup {Presentation(p, default_query) : p \in PresentationNames}

NextStats ==
    \/ ret.op = "idle" /\ FeedbackManager_get_feedback_stats
    \/ ret.op = "idle" /\ get_stats
    \/ \E instance \in Instances : ret.op = "idle" /\ get_learning_stats(instance)
    \/ \E cfg \in StatsQueryConfigs : ret.op = "idle" /\ query_articles_advanced(cfg)
    \/ caller_returns

SpecStats == InitQuery /\ [][NextStats]_vars

(***************************************************************************)
(* Deep analysis, the retention sweep, and the store specification         *)
(***************************************************************************)
\* A save that writes the row anew (REPLACE INTO): the columns it does not
\* name fall back to their defaults.
SaveDeepAnalysisRowsReplace(arts, article_id, analysis_text) ==
    {IF a.id = article_id
     THEN Article(a.id, a.url, a.title, a.content, Null, Some(analysis_text),
                  a.source_name, a.published_date, a.fetched_date, Null, FALSE)
     ELSE a : a \in arts}

\* save_deep_analysis: UPDATE articles SET deep_analysis = ? WHERE id = ?
SaveDeepAnalysisRows(arts, article_id, analysis_text) ==
    {IF a.id = article_id THEN [a EXCEPT !.deep_analysis = Some(analysis_text)] ELSE a :
        a \in arts}

\* save_deep_analysis_tool: strip the text, look the article up, save.
save_deep_analysis_tool(args) ==
    LET analysis_text == Strip(args.analysis_text)
        ok == analysis_text # <<>> /\ FindArticle(articles, args.article_id) # {}
    IN  /\ articles' = IF ok
                       THEN SaveDeepAnalysisRows(articles, args.article_id, analysis_text)
                       ELSE articles
        /\ ret' = Ret("save_deep_analysis_tool", args, [success |-> ok])
        /\ UNCHANGED <<feedback, profile, process>>

\* DELETE FROM articles WHERE date(fetched_date) < date('now', '-days days')
CleanupRows(arts, days) == {a \in arts : ~(a.fetched_date < Now - days)}

\* cleanup_old_articles: the DELETE touches the articles table alone (no
\* foreign key is enforced, so no feedback row stops it or goes with it); the
\* ids of the deleted rows stay used.
cleanup_old_articles(days) ==
    /\ articles' = CleanupRows(articles, days)
    /\ sequence' = Max(sequence, LargestId(articles))
    /\ ret' = Ret("cleanup_old_articles", [days |-> days],
                  Cardinality(articles) - Cardinality(CleanupRows(articles, days)))
    /\ UNCHANGED <<feedback, profile, config_file, managers, calls>>

\* cleanup_old_articles(days: int = 30)
DefaultRetentionDays == 30

\* Article 1 is new and article 3 is older than the retention period.
StoreCorpus == {PoolArticle1, PoolArticle3}

\* One feed serving one entry: the article "a", or the same article with a
\* tracking parameter.
StoreFeeds ==
    { << <<Entry(<<"a">>, <<"R", "u", "s", "t">>, <<"a", "i">>, Some(38))>>, <<>> >>,
      << <<>>, <<Entry(<<"a", "?", "t">>, <<"M", "a", "t">>, <<>>, Null)>> >> }

\* Articles 1 and 3 are stored at the start, 4 is the first id ingestion
\* assigns, 9 is no article.
StoreArticleIds == {1, 3, 4, 9}

StoreFeedbackArgs ==
    {[article_id |-> id, rating |-> r, note |-> Null] : id \in StoreArticleIds, r \in {0, 5}}

StoreAnalysisArgs ==
    {[article_id |-> id, summary |-> <<"s", " ">>, relevance_score |-> HighThreshold] :
        id \in {1, 4}}

StoreDeepArgs ==
    {[article_id |-> id, analysis_text |-> t] : id \in {3, 4}, t \in {<<" ">>, <<"x", " ">>}}

StoreQueryConfigs == {default_query, Filter("with_feedback", default_query)}

InitStore ==
    /\ articles = StoreCorpus
    /\ feedback = {}
    /\ profile = InitDefaultTopics({})
    /\ ret = Idle
    /\ InitProcess

\* A call is made when no call is outstanding.
NextStore ==
    \/ \E feeds \in StoreFeeds :
          ret.op = "idle" /\ fetch_all(feeds, DefaultMaxArticlesPerSource)
    \/ \E args \in StoreFeedbackArgs : ret.op = "idle" /\ save_feedback_tool(args)
    \/ \E args \in StoreAnalysisArgs : ret.op = "idle" /\ save_article_analysis_tool(args)
    \/ \E args \in StoreDeepArgs : ret.op = "idle" /\ save_deep_analysis_tool(args)
    \/ \E id \in StoreArticleIds : ret.op = "idle" /\ mark_as_read(id)
    \/ ret.op = "idle" /\ mark_all_as_read
    \/ ret.op = "idle" /\ cleanup_old_articles(DefaultRetentionDays)
    \/ \E cfg \in StoreQueryConfigs : ret.op = "idle" /\ query_articles_advanced(cfg)
    \/ caller_returns

SpecStore == InitStore /\ [][NextStore]_vars

(***************************************************************************)
(* Removal specification: the job removes topics while the session adjusts *)
(* and learns, at statement granularity                                    *)
(***************************************************************************)
\* remove_topic is one DELETE in one transaction, made by a process that is in
\* no call.
remove_topic_between(p, topic) ==
    /\ ret.op = "idle"
    /\ ~InProgress(p)
    /\ remove_topic(topic)

NextRemoval ==
    \/ \E t \in TopicNames, d \in InterleavedDeltas : adjust_reads("session", t, d)
    \/ adjust_writes("session")
    \/ \E id \in InterleavedArticleIds, r \in InterleavedRatings :
          learn_starts("session", id, r)
    \/ loop_reads("session")
    \/ loop_writes("session")
    \/ \E t \in TopicNames : remove_topic_between("job", t)
    \/ caller_returns

SpecRemoval == InitInterleaved /\ [][NextRemoval]_vars

(***************************************************************************)
(* Saving specification: the session saves feedback statement by statement *)
(* while the job marks, sweeps and analyses in between                     *)
(***************************************************************************)
\* Article 2 matches both topics, article 1 one, 9 is no article.
SavingFeedbackArgs ==
    {[process |-> "", article_id |-> id, rating |-> r, note |-> Null] :
        id \in {1, 2, 9}, r \in {3, 5, 6}}

SavingDeepArgs == {[article_id |-> 3, analysis_text |-> <<"x">>]}

\* The articles of the corpus were fetched on day 1; a sweep that keeps 40
\* days keeps them, the default deletes them.
SavingRetentionDays == {DefaultRetentionDays, 40}

NextSaving ==
    \/ \E args \in SavingFeedbackArgs :
          Cardinality(feedback) < MaxFeedback /\ save_feedback_adds("session", args)
    \/ save_feedback_marks("session")
    \/ save_feedback_learns("session")
    \/ loop_reads("session")
    \/ loop_writes("session")
    \/ \E id \in {1, 3} : ret.op = "idle" /\ mark_as_read(id)
    \/ ret.op = "idle" /\ mark_all_as_read
    \/ \E days \in SavingRetentionDays : ret.op = "idle" /\ cleanup_old_articles(days)
    \/ \E args \in SavingDeepArgs : ret.op = "idle" /\ save_deep_analysis_tool(args)
    \/ caller_returns

SpecSaving == InitInterleaved /\ [][NextSaving]_vars

(***************************************************************************)
(* Claims about the profile (checked under SpecProfile)                    *)
(***************************************************************************)
Clamp01(w) == IF w < 0 THEN 0 ELSE IF w > 20 THEN 20 ELSE w

\* The stored weight of a topic (the topic has a row).
StoredWeight(prof, topic) == (CHOOSE r \in prof : r.topic = topic).weight

\* The profile topics matched by the text of the article with this id, by the
\* extractor alone (no topics when there is no such article).
MatchedBy(arts, prof, article_id) ==
    UNION {extract_topics_from_text(prof, a.content, a.title) :
              a \in {b \in arts : b.id = article_id}}

\* C1: in every reachable state every stored profile topic has a weight in
\* [0,1] and no topic name has more than one row.
C1_WeightClampedOneRowPerTopic ==
    /\ \A r \in profile : r.weight >= 0 /\ r.weight <= 20
    /\ \A r1, r2 \in profile : r1.topic = r2.topic => r1 = r2

\* C1 witness: update_topic was called with a weight above 1.0 on a topic and
\* the row it left holds 1.0.
C1_Witness ==
    /\ ret.op = "update_topic"
    /\ ret.args.weight = 25
    /\ \E r \in profile : r.topic = ret.args.topic /\ r.weight = 20 /\ r.sample_count = 2

\* C2 (as claimed): adjust_topic_weight returns the weight stored for the topic
\* after the call, which is exactly 1.0 for delta +10.0 and exactly 0.0 for
\* delta -10.0, also for a topic that did not exist before the call.
C2_AdjustReturnsStoredWeight ==
    ret.op = "adjust_topic_weight" =>
        /\ \E r \in profile : r.topic = ret.args.topic
        /\ ret.value = StoredWeight(profile, ret.args.topic)
        /\ ret.args.delta = 200 => ret.value = 20
        /\ ret.args.delta = -200 => ret.value = 0

\* C3: learn_from_feedback on an article whose text matches a non-empty set M of
\* profile topics moves every topic of M by the one delta of the table
\* 5:+0.10 4:+0.05 3:0 2:-0.05 1:-0.10, clamped to [0,1].
C3_LearnAppliesTableDelta ==
    [][ret'.op = "learn_from_feedback" =>
          LET M == MatchedBy(articles, profile, ret'.args.article_id)
              r == ret'.args.rating
              d == IF r = 5 THEN 2 ELSE IF r = 4 THEN 1 ELSE IF r = 3 THEN 0
                   ELSE IF r = 2 THEN -1 ELSE -2
          IN  \A t \in M :
                 /\ \E row \in profile' : row.topic = t
                 /\ StoredWeight(profile', t) = Clamp01(StoredWeight(profile, t) + d)
                 /\ StoredWeight(profile, t) = 10 =>
                       StoredWeight(profile', t) =
                          (IF r = 5 THEN 12 ELSE IF r = 4 THEN 11 ELSE IF r = 3 THEN 10
                           ELSE IF r = 2 THEN 9 ELSE 8)]_vars

\* C3 witness: a rating of 4 on the article matching both topics was learned,
\* and it moved a topic from 0.5 to 0.55 and another topic as well.
C3_Witness ==
    /\ ret.op = "learn_from_feedback"
    /\ ret.args.rating = 4
    /\ Len(ret.value.updates) = 2
    /\ \E i \in DOMAIN ret.value.updates : ret.value.updates[i][2] = 11
    /\ \E r \in profile : r.weight = 11 /\ r.sample_count = 2

\* C4: learn_from_feedback changes nothing and returns no updates when the
\* article does not exist or its text matches no profile topic, and it never
\* changes a profile topic its text does not match.
C4_LearnNoMatchIsNoOp ==
    [][ret'.op = "learn_from_feedback" =>
          LET M == MatchedBy(articles, profile, ret'.args.article_id)
          IN  /\ M = {} => profile' = profile /\ ret'.value.none
              /\ \A row \in profile : row.topic \notin M => row \in profile'
              /\ {row.topic : row \in profile'} = {row.topic : row \in profile}]_vars

\* C4 witness: feedback was learned on the article matching no topic while the
\* profile held both topics, and no updates came back.
C4_Witness ==
    /\ ret.op = "learn_from_feedback"
    /\ ret.args.article_id = 3
    /\ ret.args.rating = 5
    /\ ret.value.none
    /\ Cardinality(profile) = 2

\* C14 (as claimed): after update_topic(topic, weight, source) the stored
\* provenance of the topic is the source of that call, whether the topic was
\* inserted by the call or existed before it.
C14_UpdateStoresSuppliedProvenance ==
    ret.op = "update_topic" =>
        \E r \in profile : r.topic = ret.args.topic /\ r.source = ret.args.source

\* C15: adjust_topic_weight creates a topic that has no row with provenance
\* learned and leaves the provenance of a topic that has a row as it was; so
\* does every adjustment made by learn_from_feedback.
C15_AdjustKeepsProvenance ==
    [][/\ ret'.op = "adjust_topic_weight" =>
            /\ (\A r \in profile : r.topic # ret'.args.topic) =>
                  \E r \in profile' : r.topic = ret'.args.topic /\ r.source = "learned"
            /\ \A r \in profile :
                  \E q \in profile' : q.topic = r.topic /\ q.source = r.source
       /\ ret'.op = "learn_from_feedback" =>
            \A r \in profile :
                  \E q \in profile' : q.topic = r.topic /\ q.source = r.source]_vars

\* C15 witness: a topic that was removed and set again by the agent was
\* adjusted afterwards and is still agent_updated.
C15_Witness ==
    /\ ret.op = "adjust_topic_weight"
    /\ \E r \in profile :
          /\ r.topic = ret.args.topic
          /\ r.source = "agent_updated"
          /\ r.sample_count = 2
          /\ r.weight = ret.value

(***************************************************************************)
(* Claims about the query and the tiering (checked under SpecQuery)        *)
(***************************************************************************)
SeqIds(dicts) == {dicts[i].id : i \in DOMAIN dicts}

\* The stored article with this id.
Stored(arts, id) == CHOOSE a \in arts : a.id = id

AllTiers(value) ==
    value.articles_by_tier.high_relevance \o value.articles_by_tier.medium_relevance
        \o value.articles_by_tier.low_relevance

\* C5 (as claimed): whenever the query of a grouped get_articles_tool call
\* returns a list, the call succeeds with that list, and the high, medium and
\* low tier lists together hold every returned article exactly once.
C5_TiersPartitionResult ==
    (ret.op = "get_articles_tool" /\ ret.args.grouped
        /\ ~QuerySyntaxError(ToolQuery(ret.args))) =>
        /\ ret.value.success
        /\ ret.value.articles \in
              {r.articles : r \in QueryResults(articles, feedback, ToolQuery(ret.args))}
        /\ Len(AllTiers(ret.value)) = Len(ret.value.articles)
        /\ \A i \in DOMAIN ret.value.articles :
              Cardinality({j \in DOMAIN AllTiers(ret.value) :
                              AllTiers(ret.value)[j].id = ret.value.articles[i].id}) = 1

\* C6 (as claimed): in a successful grouped call every returned article whose
\* stored deep-analysis text is non-empty is tiered by max(storedScore, 0.75),
\* which is the high tier, and is flagged as having a deep analysis.
C6_DeepAnalysisFloor ==
    (ret.op = "get_articles_tool" /\ ret.args.grouped /\ ret.value.success) =>
        \A j \in DOMAIN AllTiers(ret.value) :
            LET d == AllTiers(ret.value)[j]
                a == Stored(articles, d.id)
            IN  (a.deep_analysis # Null /\ Len(a.deep_analysis[1]) > 0) =>
                    /\ d.tier = "high"
                    /\ d.has_deep_analysis
                    /\ d.id \in SeqIds(ret.value.articles_by_tier.high_relevance)

\* C7: a query operation (query_articles_advanced, get_articles_tool,
\* search_articles_tool), whatever its arguments, leaves every article's read
\* flag and every other stored record unchanged.
C7_QueryLeavesStoreUnchanged ==
    [][ret'.op \in {"query_articles_advanced", "get_articles_tool", "search_articles_tool"} =>
          /\ \A a \in articles : \E b \in articles' : b.id = a.id /\ b.is_read = a.is_read
          /\ articles' = articles
          /\ feedback' = feedback
          /\ profile' = profile]_vars

\* C7 witness: a query for unread articles returned an unread article while a
\* read article was stored as well.
C7_Witness ==
    /\ ret.op = "query_articles_advanced"
    /\ ret.args.read_status = "unread"
    /\ Len(ret.value.articles) = 1
    /\ \E a \in articles : a.id = ret.value.articles[1].id /\ ~a.is_read
    /\ \E a \in articles : a.is_read

HasFeedback(fb, a) == \E f \in fb : f.article_id = a.id

IsControversial(fb, a) ==
    /\ Cardinality({f \in fb : f.article_id = a.id}) >= 3
    /\ \E f, g \in fb : f.article_id = a.id /\ g.article_id = a.id /\ f.rating - g.rating >= 3

\* Article a satisfies every filter the query cfg supplies (a filter is supplied
\* when its argument is given a value; controversial = false and an unknown
\* search scope ask for nothing).
SatisfiesSupplied(cfg, a, fb) ==
    /\ cfg.read_status = "unread" => ~a.is_read
    /\ cfg.read_status = "read" => a.is_read
    /\ cfg.source # Null => Contains(Lower(a.source_name), Lower(cfg.source[1]))
    /\ cfg.sources # <<>> => \E i \in DOMAIN cfg.sources : cfg.sources[i] = a.source_name
    /\ cfg.exclude_sources # <<>> =>
          \A i \in DOMAIN cfg.exclude_sources : cfg.exclude_sources[i] # a.source_name
    /\ cfg.min_relevance # Null =>
          a.relevance_score # Null /\ a.relevance_score[1] >= cfg.min_relevance[1]
    /\ cfg.max_relevance # Null =>
          a.relevance_score # Null /\ a.relevance_score[1] <= cfg.max_relevance[1]
    /\ cfg.has_summary = Some(TRUE) => a.summary # Null
    /\ cfg.has_summary = Some(FALSE) => a.summary = Null
    /\ cfg.last_n_days # Null =>
          a.published_date # Null /\ a.published_date[1] >= Now - cfg.last_n_days[1]
    /\ cfg.published_after # Null =>
          a.published_date # Null /\ a.published_date[1] >= cfg.published_after[1]
    /\ cfg.published_before # Null =>
          a.published_date # Null /\ a.published_date[1] <= cfg.published_before[1]
    /\ cfg.fetched_after # Null => a.fetched_date >= cfg.fetched_after[1]
    /\ cfg.fetched_before # Null => a.fetched_date <= cfg.fetched_before[1]
    /\ cfg.search_query # Null =>
          \/ cfg.search_in \notin {"all", "title", "content", "summary"}
          \/ cfg.search_in \in {"all", "title"} /\ Like(Some(a.title), cfg.search_query[1])
          \/ cfg.search_in \in {"all", "content"} /\ Like(a.content, cfg.search_query[1])
          \/ cfg.search_in \in {"all", "summary"} /\ Like(a.summary, cfg.search_query[1])
    /\ cfg.exclude_query # Null =>
          ~Like(Some(a.title), cfg.exclude_query[1]) /\ ~Like(a.content, cfg.exclude_query[1])
    /\ cfg.with_feedback = Some(TRUE) => HasFeedback(fb, a)
    /\ cfg.with_feedback = Some(FALSE) => ~HasFeedback(fb, a)
    /\ cfg.min_rating # Null =>
          \E f \in fb : f.article_id = a.id /\ f.rating >= cfg.min_rating[1]
    /\ cfg.controversial = Some(TRUE) => IsControversial(fb, a)

\* C8 (as claimed): every article query_articles_advanced returns is an article
\* of the corpus that satisfies every supplied filter simultaneously.
C8_ReturnedSatisfyEveryFilter ==
    (ret.op = "query_articles_advanced" /\ ~ret.value.error) =>
        \A i \in DOMAIN ret.value.articles :
            \E a \in articles :
                /\ a.id = ret.value.articles[i].id
                /\ a.url = ret.value.articles[i].url
                /\ SatisfiesSupplied(ret.args, a, feedback)

FilterFields ==
    {"read_status", "source", "sources", "exclude_sources", "min_relevance",
     "max_relevance", "has_summary", "published_after", "published_before",
     "fetched_after", "fetched_before", "last_n_days", "search_query", "exclude_query",
     "with_feedback", "min_rating", "controversial"}

\* C9 (as claimed): without pagination, dropping any one supplied filter from a
\* query returns a superset of the articles the query returned.
C9_DroppingFilterNeverShrinks ==
    (ret.op = "query_articles_advanced" /\ ~ret.value.error /\ ~ret.args.stats_only
        /\ ret.args.limit = Null /\ ret.args.offset = 0) =>
        \A f \in FilterFields :
            \A r \in QueryResults(articles, feedback,
                                  [ret.args EXCEPT ![f] = default_query[f]]) :
                SeqIds(ret.value.articles) \subseteq SeqIds(r.articles)

NamedOrders ==
    {"relevance_desc", "relevance_asc", "published_desc", "published_asc",
     "fetched_desc", "fetched_asc", "title", "source"}

\* Positions [offset, offset + limit) of seq, counted from 0; everything from
\* position offset on when no limit is supplied.
Window(seq, limit, offset) ==
    LET to == IF limit = Null THEN Len(seq) ELSE Min(Len(seq), offset + limit[1])
    IN  IF offset + 1 > to THEN <<>> ELSE SubSeq(seq, offset + 1, to)

\* C19 (as claimed): for every named sort order, every optional limit and
\* every offset, query_articles_advanced returns the window
\* [offset, offset + limit) of the filtered list in that order: at most limit
\* rows for a supplied limit, everything from offset on without one.
C19_PaginationAfterOrdering ==
    (ret.op = "query_articles_advanced" /\ ~ret.args.stats_only
        /\ ret.args.sort_by \in NamedOrders) =>
        /\ ~ret.value.error
        /\ ret.args.limit # Null => Len(ret.value.articles) <= ret.args.limit[1]
        /\ \E seq \in SortedSeqs(Grouped(Filtered(articles, feedback, ret.args), ret.args),
                                 ret.args.sort_by) :
              LET window == Window(seq, ret.args.limit, ret.args.offset)
              IN  /\ Len(ret.value.articles) = Len(window)
                  /\ \A i \in DOMAIN window : ret.value.articles[i].id = window[i][1].id

(***************************************************************************)
(* Claims about ingestion (checked under SpecIngest)                       *)
(***************************************************************************)
UrlUnique == \A a, b \in articles : a.url = b.url => a = b

\* The URLs of the stubs a fetch_all with these arguments hands to the store.
BatchUrls(args) ==
    UNION {{normalize_url(args.feeds[s][i].link) :
                i \in {j \in DOMAIN args.feeds[s] : j <= args.max_articles_per_source}}
           : s \in DOMAIN args.feeds} \ {<<>>}

\* C10: no two stored articles ever share a URL, and a fetch_all leaves every
\* row stored before it as it was (so a stub whose normalized URL is stored
\* inserts nothing and changes nothing), stores the URL of every stub of the
\* batch (a duplicate does not end the batch), and reports as total_new the
\* number of rows it inserted.
C10_IngestionKeepsUrlsUnique ==
    /\ [](UrlUnique)
    /\ [][ret'.op = "fetch_all" =>
            /\ articles \subseteq articles'
            /\ {a.url : a \in articles'} = {a.url : a \in articles} \cup BatchUrls(ret'.args)
            /\ Cardinality(articles') = Cardinality({a.url : a \in articles'})
            /\ ret'.value.total_new = Cardinality(articles' \ articles)]_vars

\* C10 witness: a batch whose first stub is the tracked link of an analysed,
\* read article stored under another title, and whose second stub is new: one
\* row was inserted and the stored article kept its title, summary and flag.
C10_Witness ==
    /\ ret.op = "fetch_all"
    /\ Len(ret.args.feeds[1]) = 2
    /\ ret.args.feeds[1][1].link = <<"a", "?", "t">>
    /\ ret.args.feeds[1][2].link = <<"x", "/", "b", ";", "p", "#", "f">>
    /\ ret.args.max_articles_per_source = DefaultMaxArticlesPerSource
    /\ ret.value.total_fetched = 2
    /\ ret.value.total_new = 1
    /\ \E a \in articles :
          /\ a.url = <<"a">>
          /\ a.title = <<"R", "u", "s", "t">>
          /\ a.summary = Some(AnalysisSummary)
          /\ a.is_read
    /\ \E b \in articles : b.url = <<"x", "/", "b">> /\ b.summary = Null

(***************************************************************************)
(* Claims about feedback and analysis (checked under SpecFeedback)         *)
(***************************************************************************)
\* C11: a save_feedback_tool call with a rating outside 1..5 returns a failure
\* result and changes no feedback row, no article and no topic; and every
\* stored feedback rating is one of 1, 2, 3, 4, 5.
C11_BadRatingRejected ==
    /\ [](\A f \in feedback : f.rating \in 1..5)
    /\ [][(ret'.op = "save_feedback_tool" /\ ret'.args.rating \notin 1..5) =>
            /\ ~ret'.value.success
            /\ ~ret'.value.raised
            /\ feedback' = feedback
            /\ articles' = articles
            /\ profile' = profile]_vars

\* C11 witness: rating 6 was refused for a stored article that is still unread
\* while a feedback row of an accepted rating is stored.
C11_Witness ==
    /\ ret.op = "save_feedback_tool"
    /\ ret.args.rating = 6
    /\ ~ret.value.success
    /\ \E a \in articles : a.id = ret.args.article_id /\ ~a.is_read
    /\ feedback # {}

\* C12 (as claimed): a save_feedback_tool call for an article id that
\* references no stored article reports failure, creates no feedback row and
\* changes no topic.
C12_UnknownArticleRejected ==
    [][(ret'.op = "save_feedback_tool" /\ FindArticle(articles, ret'.args.article_id) = {}) =>
            /\ ~ret'.value.success
            /\ feedback' = feedback
            /\ profile' = profile]_vars

\* C13: save_article_analysis_tool changes an article only when the article
\* exists and the score is in [0,1]; otherwise it reports failure and leaves the
\* articles as they were; and every stored relevance score is absent or in [0,1].
C13_AnalysisValidated ==
    /\ [](\A a \in articles :
            a.relevance_score = Null
            \/ (0 <= a.relevance_score[1] /\ a.relevance_score[1] <= One))
    /\ [][ret'.op = "save_article_analysis_tool" =>
            LET ok == /\ FindArticle(articles, ret'.args.article_id) # {}
                      /\ 0 <= ret'.args.relevance_score
                      /\ ret'.args.relevance_score <= One
            IN  /\ ~ok => (~ret'.value.success /\ articles' = articles)
                /\ ret'.value.success =>
                      \E a \in articles' :
                          /\ a.id = ret'.args.article_id
                          /\ a.relevance_score = Some(ret'.args.relevance_score)
                          /\ a.summary = Some(Strip(ret'.args.summary))
                /\ ~ret'.value.success => articles' = articles
                /\ \A a \in articles' : a.id # ret'.args.article_id => a \in articles]_vars

\* C13 witness: a score of 1.05 was refused for an article that keeps the
\* score 0.2 of an earlier analysis.
C13_Witness ==
    /\ ret.op = "save_article_analysis_tool"
    /\ ret.args.relevance_score = 21
    /\ Strip(ret.args.summary) # <<>>
    /\ ~ret.value.success
    /\ \E a \in articles : a.id = ret.args.article_id /\ a.relevance_score = Some(4)

\* C20 (as claimed): get_learning_stats counts as discrepancies D the pairs,
\* among the T feedback/article pairs whose article has a score, with
\* |score - rating/5| > 0.3, and reports accuracy_rate = 1 - D/T, 1.0 when
\* T = 0; so D <= T and the rate is in [0,1].
C20_AccuracyFromDiscrepancies ==
    ret.op = "get_learning_stats" =>
        LET T == Cardinality(PairsWithScores(articles, feedback))
            D == Cardinality({f \in PairsWithScores(articles, feedback) :
                     LET score == ArticleOf(articles, f).relevance_score[1]
                     IN  score - 4 * f.rating > 6 \/ 4 * f.rating - score > 6})
            rate == ret.value.ai_accuracy.accuracy_rate
        IN  /\ ret.value.ai_accuracy.total_discrepancies = D
            /\ D <= T
            /\ T = 0 => rate = <<1, 1>>
            /\ T > 0 => rate[1] * T = (T - D) * rate[2]
            /\ 0 <= rate[1] /\ rate[1] <= rate[2] /\ rate[2] > 0

(***************************************************************************)
(* Claims about the relevance threshold (checked under SpecThreshold)      *)
(***************************************************************************)
\* C18 (as claimed): whichever process asks, get_relevance_threshold and the
\* current_threshold of get_learning_stats return the threshold of the latest
\* successful set_relevance_threshold, which is the one config.json holds.
C18_ThresholdReadIsLatestSet ==
    /\ ret.op = "get_relevance_threshold" =>
          ret.value = RelevanceThreshold(load_config(config_file))
    /\ ret.op = "get_learning_stats" =>
          ret.value.current_threshold = RelevanceThreshold(load_config(config_file))

(***************************************************************************)
(* Claims about interleaved calls (checked under SpecInterleaved)          *)
(***************************************************************************)
\* A learning loop that has committed the adjustment of some matched topic and
\* has not yet adjusted another.
PartlyLearned(p) ==
    InLoop(p) /\ calls[p].updates # <<>> /\ calls[p].topics # <<>>

\* A failure that left learn_from_feedback or save_feedback_tool has left no
\* feedback row and no topic adjustment of that call in the database.
FailureLeavesNothing ==
    (ret.op \in {"learn_from_feedback", "save_feedback_tool"} /\ ret.value.raised) =>
        /\ ret.value.updates = <<>>
        /\ \A f \in feedback : Some(f.id) # ret.value.feedback_id

\* C16 (as claimed): learn_from_feedback and save_feedback_tool are atomic: a
\* call that fails after some of its writes leaves none of them committed, and
\* no get_profile of another caller reads the database while a learning loop
\* has adjusted only some of the topics it matched.
C16_OperationsAtomic ==
    /\ []FailureLeavesNothing
    /\ [][(ret.op = "idle" /\ ret'.op = "get_profile") =>
              \A q \in Instances : ~PartlyLearned(q)]_vars

\* The statement process p executes in this step is the update_topic of an
\* adjust_topic_weight (alone or inside a learning loop).
CommitsWrite(p) ==
    /\ InProgress(p)
    /\ calls[p].pc = "write"
    /\ calls'[p] # calls[p]
    /\ profile' # profile

\* C17: when adjust_topic_weight or learn_from_feedback calls on an existing
\* topic interleave, every committed write leaves as the stored weight the value
\* computed by the call that commits it (so the last committed write wins and
\* the delta of an earlier one may be lost), every stored weight is in [0,1]
\* and every topic has exactly one row.
C17_LastCommittedWriteWins ==
    /\ [](/\ \A r \in profile : r.weight >= 0 /\ r.weight <= One
          /\ \A t \in TopicNames : Cardinality({r \in profile : r.topic = t}) = 1)
    /\ [][\A p \in Instances :
              CommitsWrite(p) =>
                  StoredWeight(profile', calls[p].pending[1].topic)
                      = calls[p].pending[1].value]_vars

\* C17 witness: an adjust_topic_weight has returned after the other process
\* wrote the same topic between its read and its write: the row has been
\* written twice since it was seeded and holds the seeded weight plus this
\* call's delta alone.
C17_Witness ==
    /\ ret.op = "adjust_topic_weight"
    /\ ~ret.value.raised
    /\ ret.args.topic = TopicMat
    /\ \E r \in profile :
          /\ r.topic = TopicMat
          /\ r.sample_count = 3
          /\ r.weight = ret.value.new_weight[1]
          /\ r.weight = StoredWeight(InitDefaultTopics({}), TopicMat) + ret.args.delta

(***************************************************************************)
(* Claims about the statistics (checked under SpecStats)                   *)
(***************************************************************************)
\* C21 (as claimed): with no article and no feedback row, get_feedback_stats,
\* get_stats and get_learning_stats report 0 for every count (total feedback,
\* positive, negative, unread, relevant), and the query returns an empty
\* article list with total 0 and no error.
C21_EmptyStoreZeroResults ==
    (articles = {} /\ feedback = {}) =>
        /\ ret.op = "get_feedback_stats" =>
              /\ ret.value.total_feedback = 0
              /\ ret.value.positive_count = Some(0)
              /\ ret.value.negative_count = Some(0)
        /\ ret.op = "get_stats" =>
              /\ ret.value.total_articles = 0
              /\ ret.value.total_feedback = 0
              /\ ret.value.unread_count = Some(0)
              /\ ret.value.relevant_count = Some(0)
        /\ ret.op = "get_learning_stats" =>
              /\ ret.value.total_feedback_given = 0
              /\ ret.value.positive_feedback = Some(0)
              /\ ret.value.negative_feedback = Some(0)
        /\ ret.op = "query_articles_advanced" =>
              /\ ~ret.value.error
              /\ ret.value.articles = <<>>
              /\ ret.value.total = 0

(***************************************************************************)
(* Claims about the store (checked under SpecStore)                        *)
(***************************************************************************)
\* C22: in every step of mark read, mark all read, save feedback, save
\* analysis, save deep analysis, ingestion (of new and of duplicate entries),
\* the retention sweep and the queries, an article that is read before the step
\* and still exists after it is read after it.
C22_ReadFlagNeverReset ==
    [][\A a \in articles : \A b \in articles' :
           (a.id = b.id /\ a.is_read) => b.is_read]_vars

\* C22 witness: the feed has served again the URL of a stored article that is
\* read and has a deep analysis; the article is still read.
C22_Witness ==
    /\ ret.op = "fetch_all"
    /\ ret.value.total_fetched = 1
    /\ ret.value.total_new = 0
    /\ \E a \in articles : a.url = <<"a">> /\ a.is_read /\ a.deep_analysis # Null

(***************************************************************************)
(* Claims about learning and provenance (checked under SpecProfile)        *)
(***************************************************************************)
\* The topics whose stored weight differs between two tables (a topic present
\* in one table alone counts as changed).
ChangedTopics(before, after) ==
    {t \in DOMAIN get_profile(before) \cup DOMAIN get_profile(after) :
        \/ t \notin DOMAIN get_profile(before)
        \/ t \notin DOMAIN get_profile(after)
        \/ get_profile(before)[t].weight # get_profile(after)[t].weight}

\* C23 (as claimed): learn_from_feedback returns a pair exactly for the matched
\* topics whose stored weight the call changed (none for rating 3 or for a
\* weight that stays at a bound), and each returned weight is the stored one.
C23_LearnReturnsChangedTopics ==
    [][(ret'.op = "learn_from_feedback" /\ (ret' # ret \/ profile' # profile)) =>
          /\ {u[1] : u \in Range(ret'.value.updates)} = ChangedTopics(profile, profile')
          /\ \A u \in Range(ret'.value.updates) : u[2] = StoredWeight(profile', u[1])]_vars

\* C24 (as claimed): analyze_profile_evolution counts every current topic in
\* exactly one of explicit_count and learned_count, and its emerging topics
\* are exactly the learned topics of weight 0.6 or more.
C24_EvolutionPartitionsTopics ==
    ret.op = "analyze_profile_evolution" =>
        /\ ret.value.explicit_count + ret.value.learned_count = Cardinality(profile)
        /\ \A r \in profile : r.source \in {"explicit", "learned"}
        /\ ret.value.emerging_topics =
              {<<r.topic, r.weight>> : r \in {q \in profile : q.source = "learned"
                                                               /\ q.weight >= EmergingWeight}}

\* The sample count stored for a topic, 0 when the topic has no row.
SampleCount(prof, topic) ==
    IF topic \in DOMAIN get_profile(prof) THEN get_profile(prof)[topic].sample_count ELSE 0

\* The step is a call that writes the topic: update_topic or
\* adjust_topic_weight on it, a learning event that matched it, or the seeding
\* of an empty profile.
WritesTopic(topic) ==
    \/ ret'.op \in {"update_topic", "adjust_topic_weight"} /\ ret'.args.topic = topic
    \/ ret'.op = "learn_from_feedback"
          /\ topic \in {u[1] : u \in Range(ret'.value.updates)}
    \/ ret'.op = "ProfileManager" /\ profile = {} /\ topic \in Range(ConfigTopics)

\* C25: every update_topic, adjust_topic_weight or learning event on a topic
\* moves its sample count up by exactly 1, from 0 when the call creates the
\* topic (also after a removal) and also when the weight stays what it was; no
\* other step changes the sample count of a topic that stays in the profile.
C25_SampleCountCountsWrites ==
    [][\A t \in TopicNames :
           /\ WritesTopic(t) => SampleCount(profile', t) = SampleCount(profile, t) + 1
           /\ (~WritesTopic(t) /\ SampleCount(profile', t) # 0) =>
                 SampleCount(profile', t) = SampleCount(profile, t)]_vars

\* C25 witness: a rating-3 learning event has left the weight of a matched
\* seeded topic as it was and its sample count at 2.
C25_Witness ==
    /\ ret.op = "learn_from_feedback"
    /\ ret.args.rating = 3
    /\ \E u \in Range(ret.value.updates) :
          /\ SampleCount(profile, u[1]) = 2
          /\ u[2] = StoredWeight(InitDefaultTopics({}), u[1])
          /\ StoredWeight(profile, u[1]) = u[2]

(***************************************************************************)
(* Claims about duplicate rows in query results (checked under SpecQuery)  *)
(***************************************************************************)
\* The ids of the articles that satisfy the filters of a query.
MatchingIds(arts, fb, cfg) == {p[1].id : p \in Filtered(arts, fb, cfg)}

\* C26 (as claimed): query_articles_advanced returns each matching article at
\* most once, the stats-only count is the number of distinct matching
\* articles, and so is total when no limit and no offset cuts the list, also
\* with with_feedback or min_rating on an article that has several feedback
\* rows.
C26_EachArticleOnce ==
    (ret.op = "query_articles_advanced" /\ ~ret.value.error) =>
        /\ \A i, j \in DOMAIN ret.value.articles :
              ret.value.articles[i].id = ret.value.articles[j].id => i = j
        /\ ret.args.stats_only =>
              ret.value.total_count =
                  Some(Cardinality(MatchingIds(articles, feedback, ret.args)))
        /\ (~ret.args.stats_only /\ ret.args.limit = Null /\ ret.args.offset = 0) =>
              ret.value.total = Cardinality(MatchingIds(articles, feedback, ret.args))

(***************************************************************************)
(* Claims about feedback rows in the store (checked under SpecStore)       *)
(***************************************************************************)
\* C27 (as claimed): in every state reachable by ingestion, save-feedback,
\* scoring, mark-read and the retention sweep, the article id of every stored
\* feedback row is the id of a stored article.
C27_FeedbackRefersToArticle ==
    \A f \in feedback : \E a \in articles : a.id = f.article_id

(***************************************************************************)
(* Claims about removal (checked under SpecProfile)                        *)
(***************************************************************************)
\* C28 (as claimed): a topic that has been removed is absent until a caller
\* sets or adjusts it or a learning event writes it; constructing a
\* ProfileManager never brings it back, also when the profile has no topic
\* left.
C28_RemovedStaysRemoved ==
    [][\A t \in TopicNames :
           (t \notin DOMAIN get_profile(profile) /\ t \in DOMAIN get_profile(profile')) =>
               \/ ret'.op \in {"update_topic", "adjust_topic_weight"} /\ ret'.args.topic = t
               \/ ret'.op = "learn_from_feedback"
                     /\ t \in {u[1] : u \in Range(ret'.value.updates)}]_vars

(***************************************************************************)
(* Claims about removal under interleaving (checked under SpecRemoval)     *)
(***************************************************************************)
\* C29 (as claimed): when the update_topic of an adjust_topic_weight (alone or
\* inside a learning loop) inserts a row for a topic that has no row, because
\* the topic was removed after the call read the profile or was absent all
\* along, the row has provenance learned and weight clamp(0.5 + delta).
C29_InsertAfterRemovalIsFresh ==
    [][\A p \in Instances :
           (CommitsWrite(p)
               /\ calls[p].pending[1].topic \notin DOMAIN get_profile(profile)) =>
                  LET row == get_profile(profile')[calls[p].pending[1].topic]
                  IN  /\ row.source = "learned"
                      /\ row.weight = Max(0, Min(One, BaseWeight + calls[p].delta))]_vars

(***************************************************************************)
(* Claims about saving feedback (checked under SpecSaving)                 *)
(***************************************************************************)
\* The session is in save_feedback_tool, past the statement pc names.
SavingAt(pcs) ==
    calls["session"].op = "save_feedback_tool" /\ calls["session"].pc \in pcs

\* The feedback row the call of the session has inserted.
SavedRows ==
    {f \in feedback : /\ Some(f.id) = calls["session"].feedback_id
                      /\ f.article_id = calls["session"].args.article_id
                      /\ f.rating = calls["session"].args.rating}

\* C30: save_feedback_tool with a valid rating on an existing article does, in
\* this order and nothing else: append one feedback row with that rating, set
\* the read flag of that article, run learn_from_feedback once (each matched
\* topic adjusted once).  No other article and no existing feedback row is
\* changed by it, and no operation updates or deletes a feedback row.
C30_SaveFeedbackEffectInOrder ==
    /\ [](/\ SavingAt({"mark_as_read", "learn", "read", "write"}) =>
                Cardinality(SavedRows) = 1
          /\ SavingAt({"mark_as_read", "learn"}) => calls["session"].updates = <<>>
          /\ SavingAt({"learn", "read", "write"}) =>
                \A a \in articles : a.id = calls["session"].args.article_id => a.is_read
          /\ SavingAt({"read", "write"}) =>
                \A t \in TopicNames :
                    Cardinality({i \in DOMAIN calls["session"].updates :
                                    calls["session"].updates[i][1] = t})
                      + Cardinality({i \in DOMAIN calls["session"].topics :
                                        calls["session"].topics[i] = t}) <= 1)
    /\ [][/\ \A f \in feedback : f \in feedback'
          /\ (calls["session"].op = "none" /\ SavingAt({"mark_as_read"})'
                /\ \E a \in articles : a.id = calls'["session"].args.article_id) =>
                /\ \E row \in feedback' \ feedback :
                      /\ feedback' = feedback \cup {row}
                      /\ row.rating = calls'["session"].args.rating
                      /\ row.article_id = calls'["session"].args.article_id
                /\ articles' = articles
                /\ profile' = profile
          /\ (SavingAt({"mark_as_read"}) /\ calls'["session"] # calls["session"]) =>
                /\ SavingAt({"learn"})'
                /\ articles' = {IF a.id = calls["session"].args.article_id
                                THEN [a EXCEPT !.is_read = TRUE] ELSE a : a \in articles}
                /\ feedback' = feedback
                /\ profile' = profile
          /\ (SavingAt({"learn", "read", "write"}) /\ calls'["session"] # calls["session"]) =>
                /\ articles' = articles
                /\ feedback' = feedback
                /\ profile' # profile => SavingAt({"write"})
          /\ profile' # profile => SavingAt({"write"})
          /\ feedback' # feedback => calls["session"].op = "none"]_vars

\* The second save has returned: the earlier feedback row is still there, the
\* rated article is read, another is unread, and both its topics were learned.
C30_Witness ==
    /\ ret.op = "save_feedback_tool"
    /\ ret.value.success
    /\ ret.value.feedback_id = Some(2)
    /\ Len(ret.value.updates) = 2
    /\ Cardinality(feedback) = 2
    /\ \E f \in feedback : f.id = 1 /\ f.article_id = ret.args.article_id
    /\ \E a \in articles : a.id = ret.args.article_id /\ a.is_read
    /\ \E b \in articles : ~b.is_read

====
